---- MODULE Spec2Model ----
(***************************************************************************)
(* A model of four parts of the algorithms repository:                     *)
(*   - src/manachers_algorithm.py : the four longest-palindromic-substring *)
(*     entry points (three quadratic ones as operators, the linear one as  *)
(*     a step machine over the locals of one invocation);                  *)
(*   - src/k_way_merge.py         : the heap based generator;              *)
(*   - src/tree_operations.py     : insertion into and deletion from a     *)
(*     binary search tree kept as a heap of TreeNode objects;              *)
(*   - src/three_way_partition.py : the in-place partition around a key.   *)
(* Python sequences are 0-based; the model keeps the source's 0-based      *)
(* indices and converts at the point of access.                            *)
(***************************************************************************)
EXTENDS Integers, Sequences, FiniteSets, TLC

VARIABLES
    frame,      \* manachers_algorithm: the locals of each invocation
    ret,        \* what the three quadratic entry points returned for `input`
    input,      \* the string handed to the quadratic entry points
    noted,      \* the input and result of one returned invocation, kept by the caller
    iterables,  \* k_way_merge: the argument lists
    its,        \* k_way_merge: per list, how many elements its iterator has handed out
    heap,       \* k_way_merge: the heap of (value, list index) nodes
    output,     \* k_way_merge: what the generator has yielded so far
    mpc,        \* k_way_merge: where the generator stands
    nodes,      \* tree_operations: the TreeNode objects, by address
    root,       \* tree_operations: the root the caller holds
    last,       \* tree_operations: the last call, its outcome and the tree before it
    partition   \* three_way_partition: the arguments and locals of the call

palVars == <<frame, ret, input, noted>>
mergeVars == <<iterables, its, heap, output, mpc>>
bstVars == <<nodes, root, last>>
partVars == <<partition>>
nonPalVars == <<mergeVars, bstVars, partVars>>
nonMergeVars == <<palVars, bstVars, partVars>>
nonBstVars == <<palVars, mergeVars, partVars>>
nonPartVars == <<palVars, mergeVars, bstVars>>

----------------------------------------------------------------------------
(* Bounds *)

MaxLen == 4         \* longest input string of the single-invocation runs
ParLen == 2         \* longest input string of the interleaved runs
SeqLen == 2         \* longest input string of the repeated-call runs
MaxK == 3           \* most lists handed to k_way_merge
MaxTotal == 4       \* most elements in all lists together
MaxKey == 5         \* keys of the binary search trees are 1..MaxKey
SeqKey == 3         \* keys of the trees that take several calls are 1..SeqKey
MaxCalls == 3       \* calls made one after another on one tree
ArrLen == 4         \* longest array handed to three_way_partition

Values == {1, 2, 3}

Alphabet == {"a", "b", "|"}
ParAlphabet == {"a", "b"}

StringsOver(A, n) == UNION {[1..k -> A] : k \in 0..n}

Proc == {1, 2}

----------------------------------------------------------------------------
(* Python sequence primitives *)

Min2(a, b) == IF a < b THEN a ELSE b
Max2(a, b) == IF a > b THEN a ELSE b

\* seq[i] raises IndexError unless -len <= i < len.
InRange(seq, i) == -Len(seq) <= i /\ i < Len(seq)

\* seq[i] for an index in range: a negative index counts from the end.
PyGet(seq, i) == seq[IF i >= 0 THEN i + 1 ELSE Len(seq) + i + 1]

\* seq[i] = v for an index in range.
PySet(seq, i, v) == [seq EXCEPT ![IF i >= 0 THEN i + 1 ELSE Len(seq) + i + 1] = v]

\* A slice bound: negative counts from the end, then clamped to [0, len].
SliceIndex(seq, i) == IF i < 0 THEN Max2(Len(seq) + i, 0) ELSE Min2(i, Len(seq))

\* seq[start:stop]
PySlice(seq, start, stop) ==
    LET lo == SliceIndex(seq, start)
        hi == SliceIndex(seq, stop)
    IN  IF lo < hi THEN SubSeq(seq, lo + 1, hi) ELSE <<>>

\* The join that puts no separator after a symbol that is itself the
\* separator.
RECURSIVE JoinCollapses(_, _)
JoinCollapses(sep, s) ==
    IF s = <<>> THEN <<>>
    ELSE IF Len(s) = 1 THEN s
    ELSE IF <<Head(s)>> = sep THEN <<Head(s)>> \o JoinCollapses(sep, Tail(s))
    ELSE <<Head(s)>> \o sep \o JoinCollapses(sep, Tail(s))

\* sep.join(s) for a string s: sep between consecutive symbols.
RECURSIVE Join(_, _)
Join(sep, s) ==
    IF s = <<>> THEN <<>>
    ELSE IF Len(s) = 1 THEN s
    ELSE <<Head(s)>> \o sep \o Join(sep, Tail(s))

\* [0] * n
Zeros(n) == [i \in 1..n |-> 0]

\* The augmentation without the closing separator.
SPrimeOpen(s) == <<"|">> \o Join(<<"|">>, s)

\* "|" + "|".join(s) + "|"
SPrime(s) == <<"|">> \o Join(<<"|">>, s) \o <<"|">>

----------------------------------------------------------------------------
(* The window expansion shared by expansion_around_centers and             *)
(* augmentation_with_separator.  `best` holds start, end, maximum_length;  *)
(* raised records an IndexError.                                           *)

Best0 == [start |-> 0, end |-> 0, maximum_length |-> 0, raised |-> FALSE]

\* The expansion with `>=` for `>`: a later window of the same length replaces
\* the recorded one.
RECURSIVE ExpandWindowLastWins(_, _, _, _)
ExpandWindowLastWins(seq, left, right, best) ==
    IF ~(left >= 0 /\ right < Len(seq)) THEN best
    ELSE IF PyGet(seq, left) # PyGet(seq, right) THEN best
    ELSE LET current_length == right - left + 1
             nb == IF current_length >= best.maximum_length
                   THEN [best EXCEPT !.start = left, !.end = right,
                                     !.maximum_length = current_length]
                   ELSE best
         IN  ExpandWindowLastWins(seq, left - 1, right + 1, nb)

\* while left >= 0 and right < len(s) and s[left] == s[right]: ...
RECURSIVE ExpandWindow(_, _, _, _)
ExpandWindow(seq, left, right, best) ==
    IF best.raised THEN best
    ELSE IF ~(left >= 0 /\ right < Len(seq)) THEN best
    ELSE IF ~(InRange(seq, left) /\ InRange(seq, right))
         THEN [best EXCEPT !.raised = TRUE]
    ELSE IF PyGet(seq, left) # PyGet(seq, right) THEN best
    ELSE LET current_length == right - left + 1
             nb == IF current_length > best.maximum_length
                   THEN [best EXCEPT !.start = left, !.end = right,
                                     !.maximum_length = current_length]
                   ELSE best
         IN  ExpandWindow(seq, left - 1, right + 1, nb)

\* for i in range(n): left, right = i, i + gap; <expand>
RECURSIVE ScanCenters(_, _, _, _, _)
ScanCenters(seq, i, n, gap, best) ==
    IF i >= n THEN best
    ELSE ScanCenters(seq, i + 1, n, gap, ExpandWindow(seq, i, i + gap, best))

\* What an entry point hands back: a value, or an exception.
Returned(v) == [status |-> "returned", value |-> v]
Raised == [status |-> "raised", value |-> <<>>]

\* The final (start, end, maximum_length) of expansion_around_centers.
EacBest(s) ==
    ScanCenters(s, 0, Len(s) - 1, 1, ScanCenters(s, 0, Len(s), 0, Best0))

expansion_around_centers(s) ==
    IF s = <<>> THEN Returned(<<>>)
    ELSE LET b == EacBest(s)
         IN  IF b.raised THEN Raised
             ELSE Returned(PySlice(s, b.start, b.end + 1))

\* The final (start, end, maximum_length) over the augmented string.
AwsBest(s) == ScanCenters(SPrime(s), 0, Len(SPrime(s)), 0, Best0)

\* The conversion of the window's right end without the - 1: (end) // 2.
augmentation_with_separator_end(s) ==
    IF s = <<>> THEN Returned(<<>>)
    ELSE LET b == AwsBest(s)
             start == b.start \div 2
             end == b.end \div 2
         IN  IF b.raised THEN Raised
             ELSE Returned(PySlice(s, start, end + 1))

augmentation_with_separator(s) ==
    IF s = <<>> THEN Returned(<<>>)
    ELSE LET b == AwsBest(s)
             start == b.start \div 2
             end == (b.end - 1) \div 2
         IN  IF b.raised THEN Raised
             ELSE Returned(PySlice(s, start, end + 1))

----------------------------------------------------------------------------
(* The radii array, its scan and the conversion to original indices.       *)

\* The expansion condition without its upper bound.
ExpandInBoundsNoUpper(s_prime, center, radius) == center - (radius + 1) >= 0

\* The bounds part tested on the radius reached, not on the one to be read
\* next: the read of radius + 1 is one step further out than what was tested.
ExpandInBoundsOfRadius(s_prime, center, radius) ==
    center - radius >= 0 /\ center + radius < Len(s_prime)

\* The bounds part without its first conjunct: nothing keeps the left index
\* from going below 0, where Python reads from the end of the string.
ExpandInBoundsNoLower(s_prime, center, radius) == center + (radius + 1) < Len(s_prime)

\* The bounds part of the expansion condition.
ExpandInBounds(s_prime, center, radius) ==
    center - (radius + 1) >= 0 /\ center + (radius + 1) < Len(s_prime)

\* The inner while of palindromic_radii_array: the radius at `center`,
\* or -1 when a read raises IndexError.
RECURSIVE PraRadius(_, _, _)
PraRadius(s_prime, center, radius) ==
    IF ~ExpandInBounds(s_prime, center, radius) THEN radius
    ELSE IF ~(InRange(s_prime, center - (radius + 1))
              /\ InRange(s_prime, center + (radius + 1))) THEN -1
    ELSE IF PyGet(s_prime, center - (radius + 1))
            # PyGet(s_prime, center + (radius + 1)) THEN radius
    ELSE PraRadius(s_prime, center, radius + 1)

\* The outer while without `radius = 0`: each expansion starts from the
\* radius found at the position before.
RECURSIVE PraPassKeepsRadius(_, _, _)
PraPassKeepsRadius(s_prime, center, palindrome_radii) ==
    IF ~(center < Len(s_prime)) THEN palindrome_radii
    ELSE LET radius == PraRadius(s_prime, center,
                                 IF center = 0 THEN 0
                                 ELSE PyGet(palindrome_radii, center - 1))
         IN  IF radius < 0 \/ ~InRange(palindrome_radii, center) THEN <<-1>>
             ELSE PraPassKeepsRadius(s_prime, center + 1,
                                     PySet(palindrome_radii, center, radius))

\* The outer while of palindromic_radii_array from `center` on; <<-1>> when
\* an IndexError was raised.
RECURSIVE PraPass(_, _, _)
PraPass(s_prime, center, palindrome_radii) ==
    IF ~(center < Len(s_prime)) THEN palindrome_radii
    ELSE LET radius == PraRadius(s_prime, center, 0)
         IN  IF radius < 0 \/ ~InRange(palindrome_radii, center) THEN <<-1>>
             ELSE PraPass(s_prime, center + 1,
                          PySet(palindrome_radii, center, radius))

PraRadii(s) == PraPass(SPrime(s), 0, Zeros(Len(SPrime(s))))

\* The scan with `>=` for `>`: the last of the largest radii is selected.
RECURSIVE MaxScanLastWins(_, _, _)
MaxScanLastWins(palindrome_radii, i, m) ==
    IF i >= Len(palindrome_radii) THEN m
    ELSE MaxScanLastWins(palindrome_radii, i + 1,
                 IF PyGet(palindrome_radii, i) >= m.max_radius
                 THEN [max_radius |-> PyGet(palindrome_radii, i), max_center |-> i]
                 ELSE m)

\* for i in range(len(palindrome_radii)): if palindrome_radii[i] > max_radius: ...
RECURSIVE MaxScan(_, _, _)
MaxScan(palindrome_radii, i, m) ==
    IF i >= Len(palindrome_radii) THEN m
    ELSE MaxScan(palindrome_radii, i + 1,
                 IF PyGet(palindrome_radii, i) > m.max_radius
                 THEN [max_radius |-> PyGet(palindrome_radii, i), max_center |-> i]
                 ELSE m)

MaxOf(palindrome_radii) ==
    MaxScan(palindrome_radii, 0, [max_radius |-> 0, max_center |-> 0])

\* start, end = (max_center - max_radius) // 2, (max_center + max_radius - 1) // 2
StartOf(m) == (m.max_center - m.max_radius) \div 2
\* The conversion with a division that rounds towards zero: -1 // 2 comes
\* out as 0, not as -1.
EndOfTruncates(m) ==
    LET x == m.max_center + m.max_radius - 1
    IN  IF x >= 0 THEN x \div 2 ELSE -((-x) \div 2)

EndOfNoMinusOne(m) == (m.max_center + m.max_radius) \div 2
EndOf(m) == (m.max_center + m.max_radius - 1) \div 2

\* The scan for the largest radius, the conversion and the slice.
Extract(s, palindrome_radii) ==
    LET m == MaxOf(palindrome_radii)
    IN  PySlice(s, StartOf(m), EndOf(m) + 1)

palindromic_radii_array(s) ==
    LET radii == PraRadii(s)
    IN  IF radii = <<-1>> THEN Raised ELSE Returned(Extract(s, radii))

----------------------------------------------------------------------------
(* manachers_algorithm as a step machine over the locals of one call.      *)
(* pc: "idle" (no call), "outer" (the test of the outer while), "expand"   *)
(* (one test of the inner while), "store" (lines 285-291), "mirror" (one   *)
(* turn of the fast-forward while), "extract" (lines 316-325), "done"      *)
(* (returned), "error" (an IndexError left the function).                  *)
(* Three fields record what the call has done so far and are read by no    *)
(* step: compared (the right-hand position of every evaluation of the      *)
(* symbol comparison of line 281, in order), writes (the position of       *)
(* every assignment to palindrome_radii, lines 285, 303 and 308, in        *)
(* order) and boundary (the largest center + radius with which an inner    *)
(* while has ended, -1 before the first); equal counts the evaluations of   *)
(* the comparison that found the two symbols equal.                        *)

IdleFrame ==
    [s |-> <<>>, s_prime |-> <<>>, palindrome_radii |-> <<>>,
     center |-> 0, radius |-> 0, original_center |-> 0, original_radius |-> 0,
     pc |-> "idle", result |-> <<>>,
     compared |-> <<>>, writes |-> <<>>, boundary |-> -1, equal |-> 0]

\* The call: s_prime, palindrome_radii, center and radius are fresh locals.
Enter(s) ==
    [IdleFrame EXCEPT !.s = s, !.s_prime = SPrime(s),
                      !.palindrome_radii = Zeros(Len(SPrime(s))),
                      !.center = 0, !.radius = 0, !.pc = "outer"]

\* while center < len(s_prime):
OuterStep(f) ==
    IF f.center < Len(f.s_prime) THEN [f EXCEPT !.pc = "expand"]
    ELSE [f EXCEPT !.pc = "extract"]

\* One evaluation of the inner while condition, and its body when it holds.
ExpandStep(f) ==
    IF ~ExpandInBounds(f.s_prime, f.center, f.radius) THEN [f EXCEPT !.pc = "store"]
    ELSE IF ~(InRange(f.s_prime, f.center - (f.radius + 1))
              /\ InRange(f.s_prime, f.center + (f.radius + 1)))
         THEN [f EXCEPT !.pc = "error"]
    ELSE IF PyGet(f.s_prime, f.center - (f.radius + 1))
            = PyGet(f.s_prime, f.center + (f.radius + 1))
         THEN [f EXCEPT !.radius = f.radius + 1,
                        !.compared = Append(f.compared, f.center + (f.radius + 1)),
                        !.equal = f.equal + 1]
    ELSE [f EXCEPT !.pc = "store",
                   !.compared = Append(f.compared, f.center + (f.radius + 1))]

\* The store that does not move on: center keeps the position just stored.
StoreStepKeepsCenter(f) ==
    IF ~InRange(f.palindrome_radii, f.center) THEN [f EXCEPT !.pc = "error"]
    ELSE [f EXCEPT !.palindrome_radii = PySet(f.palindrome_radii, f.center, f.radius),
                   !.original_center = f.center,
                   !.original_radius = f.radius,
                   !.radius = 0,
                   !.pc = "mirror",
                   !.writes = Append(f.writes, f.center),
                   !.boundary = Max2(f.boundary, f.center + f.radius)]

\* palindrome_radii[center] = radius; save the original palindrome; move on.
StoreStep(f) ==
    IF ~InRange(f.palindrome_radii, f.center) THEN [f EXCEPT !.pc = "error"]
    ELSE [f EXCEPT !.palindrome_radii = PySet(f.palindrome_radii, f.center, f.radius),
                   !.original_center = f.center,
                   !.original_radius = f.radius,
                   !.center = f.center + 1,
                   !.radius = 0,
                   !.pc = "mirror",
                   !.writes = Append(f.writes, f.center),
                   !.boundary = Max2(f.boundary, f.center + f.radius)]

\* The mirror taken one position to the right of where it lies.
MirroredCenterOffByOne(f) == f.original_center - (f.center - f.original_center) + 1

MirroredCenter(f) == f.original_center - (f.center - f.original_center)
\* The distance to the boundary counted one short, as if the boundary
\* position itself lay outside the original palindrome.
MaxRadiusOneShort(f) == f.original_center + f.original_radius - f.center - 1

MaxRadius(f) == f.original_center + f.original_radius - f.center

\* The fast-forward turn with the tie taken as case 1: the mirrored radius is
\* copied and the expansion from the boundary never happens.
MirrorStepTieCopies(f) ==
    IF ~(f.center <= f.original_center + f.original_radius)
    THEN [f EXCEPT !.pc = "outer"]
    ELSE IF PyGet(f.palindrome_radii, MirroredCenter(f)) <= MaxRadius(f)
    THEN [f EXCEPT !.palindrome_radii =
                      PySet(f.palindrome_radii, f.center,
                            PyGet(f.palindrome_radii, MirroredCenter(f))),
                   !.center = f.center + 1,
                   !.writes = Append(f.writes, f.center)]
    ELSE [f EXCEPT !.palindrome_radii =
                      PySet(f.palindrome_radii, f.center, MaxRadius(f)),
                   !.center = f.center + 1,
                   !.writes = Append(f.writes, f.center)]

\* The fast-forward turn without the clamp: in case 2 the mirrored radius is
\* copied although it reaches beyond the original palindrome.
MirrorStepNoClamp(f) ==
    IF ~(f.center <= f.original_center + f.original_radius)
    THEN [f EXCEPT !.pc = "outer"]
    ELSE IF PyGet(f.palindrome_radii, MirroredCenter(f)) # MaxRadius(f)
    THEN [f EXCEPT !.palindrome_radii =
                      PySet(f.palindrome_radii, f.center,
                            PyGet(f.palindrome_radii, MirroredCenter(f))),
                   !.center = f.center + 1,
                   !.writes = Append(f.writes, f.center)]
    ELSE [f EXCEPT !.radius = MaxRadius(f), !.pc = "outer"]

\* The fast-forward turn whose tie starts the next expansion one symbol too
\* far out: radius = max_radius + 1.
MirrorStepTieOvershoots(f) ==
    IF ~(f.center <= f.original_center + f.original_radius)
    THEN [f EXCEPT !.pc = "outer"]
    ELSE IF PyGet(f.palindrome_radii, MirroredCenter(f)) < MaxRadius(f)
    THEN [f EXCEPT !.palindrome_radii =
                      PySet(f.palindrome_radii, f.center,
                            PyGet(f.palindrome_radii, MirroredCenter(f))),
                   !.center = f.center + 1,
                   !.writes = Append(f.writes, f.center)]
    ELSE IF PyGet(f.palindrome_radii, MirroredCenter(f)) > MaxRadius(f)
    THEN [f EXCEPT !.palindrome_radii =
                      PySet(f.palindrome_radii, f.center, MaxRadius(f)),
                   !.center = f.center + 1,
                   !.writes = Append(f.writes, f.center)]
    ELSE [f EXCEPT !.radius = MaxRadius(f) + 1, !.pc = "outer"]

\* The fast-forward turn whose tie also stores its lower bound: the entry is
\* written before the expansion and again by the store after it.
MirrorStepTieWrites(f) ==
    IF ~(f.center <= f.original_center + f.original_radius)
    THEN [f EXCEPT !.pc = "outer"]
    ELSE IF PyGet(f.palindrome_radii, MirroredCenter(f)) < MaxRadius(f)
    THEN [f EXCEPT !.palindrome_radii =
                      PySet(f.palindrome_radii, f.center,
                            PyGet(f.palindrome_radii, MirroredCenter(f))),
                   !.center = f.center + 1,
                   !.writes = Append(f.writes, f.center)]
    ELSE IF PyGet(f.palindrome_radii, MirroredCenter(f)) > MaxRadius(f)
    THEN [f EXCEPT !.palindrome_radii =
                      PySet(f.palindrome_radii, f.center, MaxRadius(f)),
                   !.center = f.center + 1,
                   !.writes = Append(f.writes, f.center)]
    ELSE [f EXCEPT !.palindrome_radii =
                      PySet(f.palindrome_radii, f.center, MaxRadius(f)),
                   !.writes = Append(f.writes, f.center),
                   !.radius = MaxRadius(f), !.pc = "outer"]

\* The fast-forward turn with `<` for `<=` in the loop condition: the loop
\* is left before the boundary position of the original palindrome.
MirrorStepStrict(f) ==
    IF ~(f.center < f.original_center + f.original_radius)
    THEN [f EXCEPT !.pc = "outer"]
    ELSE IF PyGet(f.palindrome_radii, MirroredCenter(f)) < MaxRadius(f)
    THEN [f EXCEPT !.palindrome_radii =
                      PySet(f.palindrome_radii, f.center,
                            PyGet(f.palindrome_radii, MirroredCenter(f))),
                   !.center = f.center + 1,
                   !.writes = Append(f.writes, f.center)]
    ELSE IF PyGet(f.palindrome_radii, MirroredCenter(f)) > MaxRadius(f)
    THEN [f EXCEPT !.palindrome_radii =
                      PySet(f.palindrome_radii, f.center, MaxRadius(f)),
                   !.center = f.center + 1,
                   !.writes = Append(f.writes, f.center)]
    ELSE [f EXCEPT !.radius = MaxRadius(f), !.pc = "outer"]

\* The fast-forward turn whose tie forgets its lower bound: the next
\* expansion starts again from radius 0.
MirrorStepTieRestarts(f) ==
    IF ~(f.center <= f.original_center + f.original_radius)
    THEN [f EXCEPT !.pc = "outer"]
    ELSE IF PyGet(f.palindrome_radii, MirroredCenter(f)) < MaxRadius(f)
    THEN [f EXCEPT !.palindrome_radii =
                      PySet(f.palindrome_radii, f.center,
                            PyGet(f.palindrome_radii, MirroredCenter(f))),
                   !.center = f.center + 1,
                   !.writes = Append(f.writes, f.center)]
    ELSE IF PyGet(f.palindrome_radii, MirroredCenter(f)) > MaxRadius(f)
    THEN [f EXCEPT !.palindrome_radii =
                      PySet(f.palindrome_radii, f.center, MaxRadius(f)),
                   !.center = f.center + 1,
                   !.writes = Append(f.writes, f.center)]
    ELSE [f EXCEPT !.radius = 0, !.pc = "outer"]

\* The fast-forward left out: every position is expanded from radius 0, as
\* in palindromic_radii_array.
MirrorStepSkipped(f) == [f EXCEPT !.pc = "outer"]

\* The fast-forward turn whose tie moves on like the other two cases: center
\* is advanced before the loop is left.
MirrorStepTieSkips(f) ==
    IF ~(f.center <= f.original_center + f.original_radius)
    THEN [f EXCEPT !.pc = "outer"]
    ELSE IF PyGet(f.palindrome_radii, MirroredCenter(f)) < MaxRadius(f)
    THEN [f EXCEPT !.palindrome_radii =
                      PySet(f.palindrome_radii, f.center,
                            PyGet(f.palindrome_radii, MirroredCenter(f))),
                   !.center = f.center + 1,
                   !.writes = Append(f.writes, f.center)]
    ELSE IF PyGet(f.palindrome_radii, MirroredCenter(f)) > MaxRadius(f)
    THEN [f EXCEPT !.palindrome_radii =
                      PySet(f.palindrome_radii, f.center, MaxRadius(f)),
                   !.center = f.center + 1,
                   !.writes = Append(f.writes, f.center)]
    ELSE [f EXCEPT !.radius = MaxRadius(f), !.center = f.center + 1, !.pc = "outer"]

\* One turn of `while center <= original_center + original_radius`.
MirrorStep(f) ==
    IF ~(f.center <= f.original_center + f.original_radius)
    THEN [f EXCEPT !.pc = "outer"]
    ELSE LET mirrored_center == MirroredCenter(f)
             max_radius == MaxRadius(f)
         IN  IF ~InRange(f.palindrome_radii, mirrored_center)
             THEN [f EXCEPT !.pc = "error"]
             ELSE IF PyGet(f.palindrome_radii, mirrored_center) < max_radius
             THEN \* Case 1
                  IF ~InRange(f.palindrome_radii, f.center)
                  THEN [f EXCEPT !.pc = "error"]
                  ELSE [f EXCEPT !.palindrome_radii =
                                    PySet(f.palindrome_radii, f.center,
                                          PyGet(f.palindrome_radii, mirrored_center)),
                                 !.center = f.center + 1,
                                 !.writes = Append(f.writes, f.center)]
             ELSE IF PyGet(f.palindrome_radii, mirrored_center) > max_radius
             THEN \* Case 2
                  IF ~InRange(f.palindrome_radii, f.center)
                  THEN [f EXCEPT !.pc = "error"]
                  ELSE [f EXCEPT !.palindrome_radii =
                                    PySet(f.palindrome_radii, f.center, max_radius),
                                 !.center = f.center + 1,
                                 !.writes = Append(f.writes, f.center)]
             ELSE \* Case 3
                  [f EXCEPT !.radius = max_radius, !.pc = "outer"]

\* The scan for the largest radius, the conversion and the returned slice.
ExtractStep(f) ==
    [f EXCEPT !.result = Extract(f.s, f.palindrome_radii), !.pc = "done"]

\* The step the invocation takes next.
MStep(f) ==
    CASE f.pc = "outer" -> OuterStep(f)
      [] f.pc = "expand" -> ExpandStep(f)
      [] f.pc = "store" -> StoreStep(f)
      [] f.pc = "mirror" -> MirrorStep(f)
      [] f.pc = "extract" -> ExtractStep(f)
      [] OTHER -> f

\* The invocation run to its end with nothing else going on.
RECURSIVE Run(_)
Run(f) == IF f.pc \in {"idle", "done", "error"} THEN f ELSE Run(MStep(f))

manachers_algorithm(s) ==
    LET f == Run(Enter(s))
    IN  IF f.pc = "error" THEN Raised ELSE Returned(f.result)

----------------------------------------------------------------------------
(* Actions of the palindrome part *)

NotCalled == [status |-> "not called", value |-> <<>>]

NotedNothing == [set |-> FALSE, s |-> <<>>, result |-> <<>>, again |-> FALSE]

\* The call with the cursor kept outside the function: center survives from
\* the call before.
CallKeepsCursor(p, s) ==
    /\ frame[p].pc \in {"idle", "done"}
    /\ frame' = [frame EXCEPT ![p] = [Enter(s) EXCEPT !.center = frame[p].center]]
    /\ noted' = IF noted.set THEN [noted EXCEPT !.again = TRUE] ELSE noted
    /\ UNCHANGED <<ret, input, nonPalVars>>

\* A caller invokes manachers_algorithm(s) once no call of its own is running.
Call(p, s) ==
    /\ frame[p].pc \in {"idle", "done"}
    /\ frame' = [frame EXCEPT ![p] = Enter(s)]
    /\ noted' = IF noted.set THEN [noted EXCEPT !.again = TRUE] ELSE noted
    /\ UNCHANGED <<ret, input, nonPalVars>>

Outer(p) ==
    /\ frame[p].pc = "outer"
    /\ frame' = [frame EXCEPT ![p] = OuterStep(frame[p])]
    /\ UNCHANGED <<ret, input, noted, nonPalVars>>

Expand(p) ==
    /\ frame[p].pc = "expand"
    /\ frame' = [frame EXCEPT ![p] = ExpandStep(frame[p])]
    /\ UNCHANGED <<ret, input, noted, nonPalVars>>

\* The store with one radii array shared by all invocations: the write lands
\* in every invocation's array that has the position.
StoreShared(p) ==
    /\ frame[p].pc = "store"
    /\ frame' = [q \in Proc |->
                    IF q = p THEN StoreStep(frame[p])
                    ELSE IF InRange(frame[q].palindrome_radii, frame[p].center)
                    THEN [frame[q] EXCEPT !.palindrome_radii =
                              PySet(frame[q].palindrome_radii, frame[p].center,
                                    frame[p].radius)]
                    ELSE frame[q]]
    /\ UNCHANGED <<ret, input, noted, nonPalVars>>

Store(p) ==
    /\ frame[p].pc = "store"
    /\ frame' = [frame EXCEPT ![p] = StoreStep(frame[p])]
    /\ UNCHANGED <<ret, input, noted, nonPalVars>>

Mirror(p) ==
    /\ frame[p].pc = "mirror"
    /\ frame' = [frame EXCEPT ![p] = MirrorStep(frame[p])]
    /\ UNCHANGED <<ret, input, noted, nonPalVars>>

ExtractResult(p) ==
    /\ frame[p].pc = "extract"
    /\ frame' = [frame EXCEPT ![p] = ExtractStep(frame[p])]
    /\ UNCHANGED <<ret, input, noted, nonPalVars>>

\* The caller keeps the input and the result of one returned call.
Note(p) ==
    /\ frame[p].pc = "done"
    /\ ~noted.set
    /\ noted' = [set |-> TRUE, s |-> frame[p].s, result |-> frame[p].result,
                 again |-> FALSE]
    /\ UNCHANGED <<frame, ret, input, nonPalVars>>

CallExpansionAroundCenters ==
    /\ ret.eac = NotCalled
    /\ ret' = [ret EXCEPT !.eac = expansion_around_centers(input)]
    /\ UNCHANGED <<frame, input, noted, nonPalVars>>

CallAugmentationWithSeparator ==
    /\ ret.aws = NotCalled
    /\ ret' = [ret EXCEPT !.aws = augmentation_with_separator(input)]
    /\ UNCHANGED <<frame, input, noted, nonPalVars>>

CallPalindromicRadiiArray ==
    /\ ret.pra = NotCalled
    /\ ret' = [ret EXCEPT !.pra = palindromic_radii_array(input)]
    /\ UNCHANGED <<frame, input, noted, nonPalVars>>

NoneCalled == [eac |-> NotCalled, aws |-> NotCalled, pra |-> NotCalled]

----------------------------------------------------------------------------
(* heapq, as k_way_merge uses it: a list kept as a binary min-heap of       *)
(* (value, index, iterator) tuples.  The iterator of a node is the one of  *)
(* list `index`, so a node is modelled as <<value, index>>.                *)

\* Tuple comparison: the values first, the list indices when they tie.
TupleLess(a, b) == a[1] < b[1] \/ (a[1] = b[1] /\ a[2] < b[2])

\* heapq._siftdown: move `newitem` from pos towards startpos.
RECURSIVE SiftDown(_, _, _, _)
SiftDown(h, startpos, pos, newitem) ==
    IF pos > startpos /\ TupleLess(newitem, PyGet(h, (pos - 1) \div 2))
    THEN SiftDown(PySet(h, pos, PyGet(h, (pos - 1) \div 2)), startpos,
                  (pos - 1) \div 2, newitem)
    ELSE PySet(h, pos, newitem)

\* heapq._siftup, its while loop: bubble the smaller child up until a leaf.
RECURSIVE SiftUpLoop(_, _, _, _)
SiftUpLoop(h, startpos, pos, newitem) ==
    LET endpos == Len(h)
        childpos == 2 * pos + 1
        rightpos == childpos + 1
        smaller == IF rightpos < endpos
                      /\ ~TupleLess(PyGet(h, childpos), PyGet(h, rightpos))
                   THEN rightpos ELSE childpos
    IN  IF childpos < endpos
        THEN SiftUpLoop(PySet(h, pos, PyGet(h, smaller)), startpos, smaller, newitem)
        ELSE SiftDown(PySet(h, pos, newitem), startpos, pos, newitem)

SiftUp(h, pos) == SiftUpLoop(h, pos, pos, PyGet(h, pos))

\* heapq.heapify: for i in reversed(range(n // 2)): _siftup(x, i)
RECURSIVE HeapifyFrom(_, _)
HeapifyFrom(h, i) == IF i < 0 THEN h ELSE HeapifyFrom(SiftUp(h, i), i - 1)

\* The build without the heapify call.
HeapifyMissing(h) == h

Heapify(h) == HeapifyFrom(h, (Len(h) \div 2) - 1)

\* heapq.heapreplace: the root is replaced by item, which is sifted into place.
HeapReplace(h, item) == SiftUp(PySet(h, 0, item), 0)

\* heapq.heappop: the last node takes the root's place and is sifted.
HeapPop(h) ==
    LET lastelt == PyGet(h, Len(h) - 1)
        rest == SubSeq(h, 1, Len(h) - 1)
    IN  IF rest = <<>> THEN rest ELSE SiftUp(PySet(rest, 0, lastelt), 0)

----------------------------------------------------------------------------
(* k_way_merge *)

\* for i, it in enumerate(map(iter, iterables)): the first element of each
\* non-empty list goes on the heap.
RECURSIVE FirstNodes(_, _)
FirstNodes(lists, i) ==
    IF i >= Len(lists) THEN <<>>
    ELSE IF PyGet(lists, i) = <<>> THEN FirstNodes(lists, i + 1)
    ELSE <<<<PyGet(PyGet(lists, i), 0), i>>>> \o FirstNodes(lists, i + 1)

\* The first next(consumer): the generator body runs up to `while heap`.
Build ==
    /\ mpc = "start"
    /\ heap' = Heapify(FirstNodes(iterables, 0))
    /\ its' = [i \in 0..(Len(iterables) - 1) |->
                  IF PyGet(iterables, i) = <<>> THEN 0 ELSE 1]
    /\ mpc' = "loop"
    /\ UNCHANGED <<iterables, output, nonMergeVars>>

\* while heap: e, i, it = heap[0]; yield e
Yield ==
    /\ mpc = "loop"
    /\ heap # <<>>
    /\ output' = Append(output, PyGet(heap, 0)[1])
    /\ mpc' = "yielded"
    /\ UNCHANGED <<iterables, its, heap, nonMergeVars>>

\* The consumer asks for more: e = next(it), then heapreplace, or heappop
\* when the iterator raised StopIteration.
Resume ==
    /\ mpc = "yielded"
    /\ LET i == PyGet(heap, 0)[2]
           list == PyGet(iterables, i)
       IN  IF its[i] < Len(list)
           THEN /\ heap' = HeapReplace(heap, <<PyGet(list, its[i]), i>>)
                /\ its' = [its EXCEPT ![i] = its[i] + 1]
           ELSE /\ heap' = HeapPop(heap)
                /\ its' = its
    /\ mpc' = "loop"
    /\ UNCHANGED <<iterables, output, nonMergeVars>>

\* The heap is empty: the generator returns.
Finish ==
    /\ mpc = "loop"
    /\ heap = <<>>
    /\ mpc' = "done"
    /\ UNCHANGED <<iterables, its, heap, output, nonMergeVars>>

MergeIdle ==
    /\ iterables = <<>>
    /\ its = <<>>
    /\ heap = <<>>
    /\ output = <<>>
    /\ mpc = "idle"

IsSorted(l) == \A j \in 1..(Len(l) - 1) : l[j] <= l[j + 1]
SortedLists(n) == {l \in StringsOver(Values, n) : IsSorted(l)}

RECURSIVE TotalLen(_)
TotalLen(lists) == IF lists = <<>> THEN 0 ELSE Len(Head(lists)) + TotalLen(Tail(lists))

\* Every choice of k lists, each sorted ascending, of at most n elements
\* together.
RECURSIVE SortedInputs(_, _)
SortedInputs(k, n) ==
    IF k = 0 THEN {<<>>}
    ELSE UNION {{Append(rest, l) : l \in SortedLists(n - TotalLen(rest))} :
                    rest \in SortedInputs(k - 1, n)}

----------------------------------------------------------------------------
(* tree_operations on a heap of TreeNode objects.  `ns` maps the address   *)
(* of every object created so far to its fields; NULL is None.  A walk     *)
(* that would never end (a cycle of links) is cut after more steps than    *)
(* there are objects and reported as Diverged.                             *)

NULL == 0
Diverged == -1

\* TreeNode(value=v)
TreeNode(v) == [value |-> v, parent |-> NULL, left |-> NULL, right |-> NULL]

SetMax(S) == CHOOSE x \in S : \A y \in S : y <= x
NewAddress(ns) == SetMax(DOMAIN ns \cup {0}) + 1
Alloc(ns, v) == ns @@ (NewAddress(ns) :> TreeNode(v))

Fuel(ns) == Cardinality(DOMAIN ns) + 1

RECURSIVE SearchFrom(_, _, _, _)
SearchFrom(ns, r, target, fuel) ==
    IF r = NULL THEN NULL
    ELSE IF fuel = 0 THEN Diverged
    ELSE IF ns[r].value > target THEN SearchFrom(ns, ns[r].left, target, fuel - 1)
    ELSE IF ns[r].value < target THEN SearchFrom(ns, ns[r].right, target, fuel - 1)
    ELSE r

bst_search_recursive(ns, r, target) == SearchFrom(ns, r, target, Fuel(ns))

RECURSIVE MinFrom(_, _, _)
MinFrom(ns, r, fuel) ==
    IF fuel = 0 THEN Diverged
    ELSE IF ns[r].left # NULL THEN MinFrom(ns, ns[r].left, fuel - 1)
    ELSE r

bst_min(ns, r) == MinFrom(ns, r, Fuel(ns))

\* while prev and node == prev.right: node = prev; prev = prev.parent
RECURSIVE ClimbFrom(_, _, _, _)
ClimbFrom(ns, node, prev, fuel) ==
    IF fuel = 0 THEN Diverged
    ELSE IF prev # NULL /\ node = ns[prev].right
    THEN ClimbFrom(ns, prev, ns[prev].parent, fuel - 1)
    ELSE prev

bst_successor(ns, node) ==
    IF ns[node].right # NULL THEN bst_min(ns, ns[node].right)
    ELSE ClimbFrom(ns, node, ns[node].parent, Fuel(ns))

\* What a call hands back: the objects after it, the returned reference and
\* how it ended ("returned", "raised", "diverged").
Result(ns, r, how) == [nodes |-> ns, ret |-> r, outcome |-> how]

RECURSIVE InsertFrom(_, _, _, _)
InsertFrom(ns, r, target, fuel) ==
    IF r = NULL THEN Result(Alloc(ns, target), NewAddress(ns), "returned")
    ELSE IF fuel = 0 THEN Result(ns, NULL, "diverged")
    ELSE IF ns[r].value = target THEN Result(ns, r, "returned")
    ELSE IF ns[r].value > target
    THEN LET x == InsertFrom(ns, ns[r].left, target, fuel - 1)
         IN  IF x.outcome # "returned" THEN x
             ELSE IF x.nodes[r].left = NULL
             THEN Result([x.nodes EXCEPT ![r].left = x.ret], x.ret, "returned")
             ELSE x
    ELSE LET x == InsertFrom(ns, ns[r].right, target, fuel - 1)
         IN  IF x.outcome # "returned" THEN x
             ELSE IF x.nodes[r].right = NULL
             THEN Result([x.nodes EXCEPT ![r].right = x.ret], x.ret, "returned")
             ELSE x

bst_insert_recursive(ns, r, target) == InsertFrom(ns, r, target, Fuel(ns))

\* The while loop of bst_insert_iterative: where it stops (prev) and the
\* node it returns from inside the loop (found), if any.
RECURSIVE Descend(_, _, _, _, _)
Descend(ns, prev, curr, target, fuel) ==
    IF curr = NULL THEN [prev |-> prev, found |-> NULL]
    ELSE IF fuel = 0 THEN [prev |-> prev, found |-> Diverged]
    ELSE IF ns[curr].value > target THEN Descend(ns, curr, ns[curr].left, target, fuel - 1)
    ELSE IF ns[curr].value < target THEN Descend(ns, curr, ns[curr].right, target, fuel - 1)
    ELSE [prev |-> curr, found |-> curr]

\* The attachment with the comparison turned round.
AttachWrongSide(ns, prev, node, target) ==
    IF ns[prev].value > target THEN [ns EXCEPT ![prev].right = node]
    ELSE [ns EXCEPT ![prev].left = node]

\* elif prev.value > target: prev.left = node; else: prev.right = node
Attach(ns, prev, node, target) ==
    IF ns[prev].value > target THEN [ns EXCEPT ![prev].left = node]
    ELSE [ns EXCEPT ![prev].right = node]

bst_insert_iterative(ns, r, target) ==
    LET d == Descend(ns, NULL, r, target, Fuel(ns))
        node == NewAddress(ns)
    IN  IF d.found = Diverged THEN Result(ns, NULL, "diverged")
        ELSE IF d.found # NULL THEN Result(ns, d.found, "returned")
        ELSE IF d.prev = NULL THEN Result(Alloc(ns, target), node, "returned")
        ELSE Result(Attach(Alloc(ns, target), d.prev, node, target), node, "returned")

\* The shift that always hangs v on the left of u's parent.
ShiftAlwaysLeft(ns, r, u, v) ==
    LET ns1 == IF ns[u].parent = NULL THEN ns
               ELSE [ns EXCEPT ![ns[u].parent].left = v]
    IN  [nodes |-> IF v # NULL THEN [ns1 EXCEPT ![v].parent = ns1[u].parent] ELSE ns1,
         root |-> IF ns[u].parent = NULL THEN v ELSE r]

\* shift(root, u, v): v takes u's place under u's parent; the root to use
\* from now on.
Shift(ns, r, u, v) ==
    LET ns1 == IF ns[u].parent = NULL THEN ns
               ELSE IF u = ns[ns[u].parent].left
               THEN [ns EXCEPT ![ns[u].parent].left = v]
               ELSE [ns EXCEPT ![ns[u].parent].right = v]
    IN  [nodes |-> IF v # NULL THEN [ns1 EXCEPT ![v].parent = ns1[u].parent] ELSE ns1,
         root |-> IF ns[u].parent = NULL THEN v ELSE r]

\* Case 3 of bst_delete once the successor is known.
DeleteWithSuccessor(ns, r, node, successor) ==
    LET a == IF ns[successor].parent # node
             THEN Shift(ns, r, successor, ns[successor].right)
             ELSE [nodes |-> ns, root |-> r]
        \* successor.right = node.right
        b == IF ns[successor].parent # node
             THEN [a.nodes EXCEPT ![successor].right = a.nodes[node].right]
             ELSE a.nodes
        \* successor.right.parent = successor
        c == IF ns[successor].parent # node /\ b[successor].right # NULL
             THEN [b EXCEPT ![b[successor].right].parent = successor]
             ELSE b
        d == Shift(c, a.root, node, successor)
        \* successor.left = node.left
        e == [d.nodes EXCEPT ![successor].left = d.nodes[node].left]
    IN  IF ns[successor].parent # node /\ b[successor].right = NULL
        THEN Result(b, NULL, "raised")
        ELSE IF e[successor].left = NULL THEN Result(e, NULL, "raised")
        \* successor.left.parent = successor
        ELSE Result([e EXCEPT ![e[successor].left].parent = successor], d.root,
                    "returned")

bst_delete(ns, r, target) ==
    LET node == bst_search_recursive(ns, r, target)
    IN  IF node = Diverged THEN Result(ns, NULL, "diverged")
        ELSE IF node = NULL THEN Result(ns, NULL, "returned")
        ELSE IF ns[node].left = NULL
        THEN LET x == Shift(ns, r, node, ns[node].right)
             IN  Result(x.nodes, x.root, "returned")
        ELSE IF ns[node].right = NULL
        THEN LET x == Shift(ns, r, node, ns[node].left)
             IN  Result(x.nodes, x.root, "returned")
        ELSE LET successor == bst_successor(ns, node)
             IN  IF successor = Diverged THEN Result(ns, NULL, "diverged")
                 ELSE IF successor = NULL THEN Result(ns, NULL, "raised")
                 ELSE DeleteWithSuccessor(ns, r, node, successor)

----------------------------------------------------------------------------
(* Actions of the tree part: one call on the tree the caller holds.        *)

\* `calls` counts the calls made on the tree and `keys` is the bookkeeping of
\* the caller: the keys it started with, plus those it handed to an insert,
\* minus those it handed to bst_delete.
NoCall == [op |-> "none", target |-> 0, ret |-> NULL, outcome |-> "none",
           pre_nodes |-> <<>>, pre_root |-> NULL, calls |-> 0, keys |-> {}]

Called(op, target, x) ==
    [op |-> op, target |-> target, ret |-> x.ret, outcome |-> x.outcome,
     pre_nodes |-> nodes, pre_root |-> root, calls |-> last.calls + 1,
     keys |-> IF op = "bst_delete" THEN last.keys \ {target}
              ELSE last.keys \cup {target}]

InsertRecursive(target) ==
    /\ last.op = "none"
    /\ LET x == bst_insert_recursive(nodes, root, target)
       IN  /\ nodes' = x.nodes
           /\ last' = Called("bst_insert_recursive", target, x)
    /\ UNCHANGED <<root, nonBstVars>>

InsertIterative(target) ==
    /\ last.op = "none"
    /\ LET x == bst_insert_iterative(nodes, root, target)
       IN  /\ nodes' = x.nodes
           /\ last' = Called("bst_insert_iterative", target, x)
    /\ UNCHANGED <<root, nonBstVars>>

\* root = bst_delete(root, target)
Delete(target) ==
    /\ last.op = "none"
    /\ LET x == bst_delete(nodes, root, target)
       IN  /\ nodes' = x.nodes
           /\ root' = IF x.outcome = "returned" THEN x.ret ELSE root
           /\ last' = Called("bst_delete", target, x)
    /\ UNCHANGED nonBstVars

\* A further call on the tree the caller holds: the caller keeps its root
\* across an insert and takes the root bst_delete returns.  It inserts into
\* a tree that has a root and deletes a key that is in the tree.
ThenInsertRecursive(target) ==
    /\ last.calls < MaxCalls
    /\ root # NULL
    /\ LET x == bst_insert_recursive(nodes, root, target)
       IN  /\ nodes' = x.nodes
           /\ last' = Called("bst_insert_recursive", target, x)
    /\ UNCHANGED <<root, nonBstVars>>

ThenInsertIterative(target) ==
    /\ last.calls < MaxCalls
    /\ root # NULL
    /\ LET x == bst_insert_iterative(nodes, root, target)
       IN  /\ nodes' = x.nodes
           /\ last' = Called("bst_insert_iterative", target, x)
    /\ UNCHANGED <<root, nonBstVars>>

\* root = bst_delete(root, target)
ThenDelete(target) ==
    /\ last.calls < MaxCalls
    /\ bst_search_recursive(nodes, root, target) # NULL
    /\ LET x == bst_delete(nodes, root, target)
       IN  /\ nodes' = x.nodes
           /\ root' = IF x.outcome = "returned" THEN x.ret ELSE root
           /\ last' = Called("bst_delete", target, x)
    /\ UNCHANGED nonBstVars

BstIdle ==
    /\ nodes = <<>>
    /\ root = NULL
    /\ last = NoCall

\* Every binary search tree on the keys S with every parent link set, as the
\* tests wire them by hand: the object holding key k lives at address k.
RECURSIVE TreesOn(_, _)
TreesOn(S, par) ==
    IF S = {} THEN {[root |-> NULL, nodes |-> <<>>]}
    ELSE UNION {{[root |-> k,
                  nodes |-> (k :> [value |-> k, parent |-> par,
                                   left |-> l.root, right |-> r.root])
                            @@ l.nodes @@ r.nodes] :
                    l \in TreesOn({x \in S : x < k}, k),
                    r \in TreesOn({x \in S : x > k}, k)} : k \in S}

----------------------------------------------------------------------------
(* three_way_partition as a step machine over the list it is handed and    *)
(* its locals i, j, k.  pc: "idle" (no call), "loop" (the test of the       *)
(* while), "done" (returned), "error" (an IndexError left the function).    *)
(* given keeps the list as the caller handed it in; no step reads it.       *)

NotPartitioning ==
    [arr |-> <<>>, key |-> 0, i |-> 0, j |-> 0, k |-> 0, pc |-> "idle",
     given |-> <<>>]

\* i, j, k = 0, 0, len(arr) - 1
EnterPartition(arr, key) ==
    [arr |-> arr, key |-> key, i |-> 0, j |-> 0, k |-> Len(arr) - 1,
     pc |-> "loop", given |-> arr]

\* arr[a], arr[b] = arr[b], arr[a]: the right-hand side is read first, then
\* arr[a] is assigned, then arr[b].
SwapAssign(arr, a, b) ==
    LET first == PyGet(arr, b)
        second == PyGet(arr, a)
    IN  PySet(PySet(arr, a, first), b, second)

\* The turn that moves on after the swap with the top: j is incremented
\* although the element brought down from k has not been looked at.
PartitionStepMovesOn(t) ==
    IF ~(t.j <= t.k) THEN [t EXCEPT !.pc = "done"]
    ELSE IF PyGet(t.arr, t.j) > t.key
    THEN [t EXCEPT !.arr = SwapAssign(t.arr, t.j, t.k), !.k = t.k - 1, !.j = t.j + 1]
    ELSE IF PyGet(t.arr, t.j) < t.key
    THEN [t EXCEPT !.arr = SwapAssign(t.arr, t.j, t.i), !.i = t.i + 1, !.j = t.j + 1]
    ELSE [t EXCEPT !.j = t.j + 1]

\* One test of `while j <= k` and, when it holds, one turn of the loop.
PartitionStep(t) ==
    IF ~(t.j <= t.k) THEN [t EXCEPT !.pc = "done"]
    ELSE IF ~InRange(t.arr, t.j) THEN [t EXCEPT !.pc = "error"]
    ELSE IF PyGet(t.arr, t.j) > t.key
    THEN IF ~InRange(t.arr, t.k) THEN [t EXCEPT !.pc = "error"]
         ELSE [t EXCEPT !.arr = SwapAssign(t.arr, t.j, t.k), !.k = t.k - 1]
    ELSE IF PyGet(t.arr, t.j) < t.key
    THEN IF ~InRange(t.arr, t.i) THEN [t EXCEPT !.pc = "error"]
         ELSE [t EXCEPT !.arr = SwapAssign(t.arr, t.j, t.i),
                        !.i = t.i + 1, !.j = t.j + 1]
    ELSE [t EXCEPT !.j = t.j + 1]

\* A caller hands a list and a key to three_way_partition.
CallPartition(arr, key) ==
    /\ partition.pc = "idle"
    /\ partition' = EnterPartition(arr, key)
    /\ UNCHANGED nonPartVars

Partition ==
    /\ partition.pc = "loop"
    /\ partition' = PartitionStep(partition)
    /\ UNCHANGED nonPartVars

PartitionIdle == partition = NotPartitioning

----------------------------------------------------------------------------
(* Specifications of the palindrome part *)

vars == <<palVars, mergeVars, bstVars, partVars>>

PalIdle ==
    /\ frame = [p \in Proc |-> IdleFrame]
    /\ ret = NoneCalled
    /\ noted = NotedNothing

\* One input, handed once to each of the four entry points.
InitPal ==
    /\ PalIdle
    /\ PartitionIdle
    /\ MergeIdle
    /\ BstIdle
    /\ input \in StringsOver(Alphabet, MaxLen)

CallManacher ==
    /\ frame[1].pc = "idle"
    /\ Call(1, input)

NextPal ==
    \/ CallManacher
    \/ Outer(1)
    \/ Expand(1)
    \/ Store(1)
    \/ Mirror(1)
    \/ ExtractResult(1)
    \/ CallExpansionAroundCenters
    \/ CallAugmentationWithSeparator
    \/ CallPalindromicRadiiArray

SpecPal == InitPal /\ [][NextPal]_vars

\* One caller invoking manachers_algorithm again and again.
InitSeq ==
    /\ PalIdle
    /\ PartitionIdle
    /\ MergeIdle
    /\ BstIdle
    /\ input = <<>>

CallAgain == \E s \in StringsOver(Alphabet, SeqLen) : Call(1, s)

NextSeq ==
    \/ CallAgain
    \/ Outer(1)
    \/ Expand(1)
    \/ Store(1)
    \/ Mirror(1)
    \/ ExtractResult(1)
    \/ Note(1)

SpecSeq == InitSeq /\ [][NextSeq]_vars

\* Two invocations whose steps interleave.
InitPar ==
    /\ PalIdle
    /\ PartitionIdle
    /\ MergeIdle
    /\ BstIdle
    /\ input = <<>>

CallOnce(p) ==
    /\ frame[p].pc = "idle"
    /\ \E s \in StringsOver(ParAlphabet, ParLen) : Call(p, s)

NextPar ==
    \E p \in Proc :
        \/ CallOnce(p)
        \/ Outer(p)
        \/ Expand(p)
        \/ Store(p)
        \/ Mirror(p)
        \/ ExtractResult(p)

SpecPar == InitPar /\ [][NextPar]_vars

----------------------------------------------------------------------------
(* Specification of the merge part: the generator of k_way_merge driven to  *)
(* its end, for every choice of sorted lists within the bounds.            *)

InitMerge ==
    /\ PalIdle
    /\ PartitionIdle
    /\ BstIdle
    /\ input = <<>>
    /\ iterables \in UNION {SortedInputs(k, MaxTotal) : k \in 0..MaxK}
    /\ its = <<>>
    /\ heap = <<>>
    /\ output = <<>>
    /\ mpc = "start"

NextMerge ==
    \/ Build
    \/ Yield
    \/ Resume
    \/ Finish

SpecMerge == InitMerge /\ [][NextMerge]_vars

----------------------------------------------------------------------------
(* Specification of the tree part: one call of bst_insert_recursive,       *)
(* bst_insert_iterative or bst_delete on a well-formed tree.               *)

InitBst ==
    /\ PalIdle
    /\ PartitionIdle
    /\ input = <<>>
    /\ MergeIdle
    /\ \E S \in SUBSET (1..MaxKey) : \E tree \in TreesOn(S, NULL) :
          /\ nodes = tree.nodes
          /\ root = tree.root
          /\ last = [NoCall EXCEPT !.keys = S]

NextBst ==
    \E target \in 1..MaxKey :
        \/ InsertRecursive(target)
        \/ InsertIterative(target)
        \/ Delete(target)

SpecBst == InitBst /\ [][NextBst]_vars

\* Up to MaxCalls calls, one after another, starting from a well-formed tree
\* on keys of 1..SeqKey.
InitBstCalls ==
    /\ PalIdle
    /\ PartitionIdle
    /\ input = <<>>
    /\ MergeIdle
    /\ \E S \in SUBSET (1..SeqKey) : \E tree \in TreesOn(S, NULL) :
          /\ nodes = tree.nodes
          /\ root = tree.root
          /\ last = [NoCall EXCEPT !.keys = S]

NextBstCalls ==
    \E target \in 1..SeqKey :
        \/ ThenInsertRecursive(target)
        \/ ThenInsertIterative(target)
        \/ ThenDelete(target)

SpecBstCalls == InitBstCalls /\ [][NextBstCalls]_vars

\* One call of three_way_partition on any list of up to ArrLen values.
InitPartition ==
    /\ PalIdle
    /\ input = <<>>
    /\ MergeIdle
    /\ BstIdle
    /\ PartitionIdle

NextPartition ==
    \/ \E arr \in StringsOver(Values, ArrLen) : \E key \in Values :
          CallPartition(arr, key)
    \/ Partition

SpecPartition == InitPartition /\ [][NextPartition]_vars

----------------------------------------------------------------------------
(* Vocabulary of the palindrome claims *)

Reverse(w) == [i \in 1..Len(w) |-> w[Len(w) + 1 - i]]
IsPalindrome(w) == Reverse(w) = w

\* The substring of s that starts at 0-based index i and has length n.
Sub(s, i, n) == SubSeq(s, i + 1, i + n)
Starts(s, n) == 0..(Len(s) - n)
Substrings(s) == UNION {{Sub(s, i, n) : i \in Starts(s, n)} : n \in 0..Len(s)}

PalindromeOfLength(s, n) == \E i \in Starts(s, n) : IsPalindrome(Sub(s, i, n))
LongestLength(s) ==
    CHOOSE n \in 0..Len(s) :
        /\ PalindromeOfLength(s, n)
        /\ \A m \in (n + 1)..Len(s) : ~PalindromeOfLength(s, m)
FirstStart(s, n) ==
    CHOOSE i \in Starts(s, n) :
        /\ IsPalindrome(Sub(s, i, n))
        /\ \A j \in 0..(i - 1) : ~IsPalindrome(Sub(s, j, n))

\* The strings the four entry points have handed back so far for `input`.
Quadratic == {ret.eac, ret.aws, ret.pra} \ {NotCalled}
Outcomes ==
    Quadratic \cup (IF frame[1].pc = "done" THEN {Returned(frame[1].result)} ELSE {})
              \cup (IF frame[1].pc = "error" THEN {Raised} ELSE {})
AllCalled == NotCalled \notin {ret.eac, ret.aws, ret.pra} /\ frame[1].pc = "done"

\* C1: no substring of the input strictly longer than a returned value is a
\* palindrome, for each of the four entry points.
C1_Maximality ==
    \A o \in Outcomes :
        /\ o.status = "returned"
        /\ \A w \in Substrings(input) : Len(w) > Len(o.value) => ~IsPalindrome(w)

\* All four returned a palindrome shorter than the input although the input
\* holds longer substrings.
C1_Witness ==
    /\ AllCalled
    /\ Len(input) = 4
    /\ \A o \in Outcomes : Len(o.value) = 2

\* C2: each returned value is a contiguous substring of the input and equals
\* its own reversal.
C2_PalindromeValidity ==
    \A o \in Outcomes :
        /\ o.status = "returned"
        /\ o.value \in Substrings(input)
        /\ Reverse(o.value) = o.value

\* All four returned a palindrome of three symbols, not all alike, out of a
\* longer input.
C2_Witness ==
    /\ AllCalled
    /\ Len(input) = 4
    /\ \A o \in Outcomes : Len(o.value) = 3 /\ o.value[1] # o.value[2]

\* C3: the four entry points return the identical substring.
C3_Agreement ==
    /\ \A o \in Outcomes : o.status = "returned"
    /\ Cardinality(Outcomes) <= 1

\* All four have returned for an input with several longest palindromes at
\* different places and of different content.
C3_Witness ==
    /\ AllCalled
    /\ \E i, j \in Starts(input, LongestLength(input)) :
          /\ IsPalindrome(Sub(input, i, LongestLength(input)))
          /\ IsPalindrome(Sub(input, j, LongestLength(input)))
          /\ Sub(input, i, LongestLength(input)) # Sub(input, j, LongestLength(input))

\* C4: among the palindromic substrings of maximum length each entry point
\* returns the one with the smallest start index; the linear engine selects
\* that start index itself.
C4_FirstFound ==
    /\ \A o \in Outcomes :
          /\ o.status = "returned"
          /\ o.value = Sub(input, FirstStart(input, LongestLength(input)),
                           LongestLength(input))
    /\ (frame[1].pc = "done" /\ input # <<>>) =>
          StartOf(MaxOf(frame[1].palindrome_radii))
            = FirstStart(input, LongestLength(input))
    /\ (ret.eac # NotCalled /\ input # <<>>) =>
          EacBest(input).start = FirstStart(input, LongestLength(input))

\* All four have returned for an input whose longest palindromes tie, the
\* later one differing from the first: no repeated symbol, as in "abc".
C4_Witness ==
    /\ AllCalled
    /\ Len(input) >= 3
    /\ LongestLength(input) = 1
    /\ input[1] # input[Len(input)]

\* C5: on the empty input each entry point returns the empty string and
\* raises nothing; the linear engine and the radii builder get there through
\* the pass: largest radius 0 at center 0, start 0, end -1, an empty slice.
C5_EmptyInput ==
    input = <<>> =>
        /\ \A o \in Outcomes : o = Returned(<<>>)
        /\ frame[1].pc \in {"extract", "done"} =>
              /\ MaxOf(frame[1].palindrome_radii) = [max_radius |-> 0, max_center |-> 0]
              /\ StartOf(MaxOf(frame[1].palindrome_radii)) = 0
              /\ EndOf(MaxOf(frame[1].palindrome_radii)) = -1
        /\ ret.pra # NotCalled =>
              /\ MaxOf(PraRadii(input)) = [max_radius |-> 0, max_center |-> 0]
              /\ EndOf(MaxOf(PraRadii(input))) = -1

\* The empty input has gone through all four entry points.
C5_Witness ==
    /\ input = <<>>
    /\ AllCalled

\* C6: a call of manachers_algorithm on an input returns what an earlier
\* call on the same input returned, whatever was called in between.
C6_Idempotence ==
    (frame[1].pc = "done" /\ noted.set /\ noted.s = frame[1].s)
        => frame[1].result = noted.result

\* A later call on a noted input has returned.
C6_Witness ==
    /\ frame[1].pc = "done"
    /\ noted.set
    /\ noted.again
    /\ noted.s = frame[1].s
    /\ Len(noted.s) = 2

\* C7: with the steps of two invocations interleaved, each returns what it
\* returns when it runs alone.
C7_Independence ==
    \A p \in Proc :
        /\ frame[p].pc # "error"
        /\ frame[p].pc = "done" => frame[p].result = Run(Enter(frame[p].s)).result

\* An invocation has returned while the other, on a different input, is in
\* the middle of its pass with radii already written.
C7_Witness ==
    /\ frame[1].pc = "done"
    /\ frame[2].pc \in {"expand", "mirror"}
    /\ frame[2].center >= 2
    /\ frame[1].s # frame[2].s
    /\ Len(frame[1].s) = 2

----------------------------------------------------------------------------
(* Vocabulary of the merge claim *)

RECURSIVE Concat(_)
Concat(lists) == IF lists = <<>> THEN <<>> ELSE Head(lists) \o Concat(Tail(lists))

\* l with v put before the first element greater than v.
RECURSIVE InsertSorted(_, _)
InsertSorted(l, v) ==
    IF l = <<>> THEN <<v>>
    ELSE IF v < Head(l) THEN <<v>> \o l
    ELSE <<Head(l)>> \o InsertSorted(Tail(l), v)

RECURSIVE SortAsc(_)
SortAsc(l) == IF l = <<>> THEN <<>> ELSE InsertSorted(SortAsc(Tail(l)), Head(l))

IsPrefix(a, b) == Len(a) <= Len(b) /\ a = SubSeq(b, 1, Len(a))

\* C8: what k_way_merge yields is the ascending sort of all the input
\* elements: at every moment a prefix of it, all of it once the generator has
\* returned, and the generator returns exactly when it finds the heap empty.
C8_MergeSorted ==
    mpc # "idle" =>
        /\ IsPrefix(output, SortAsc(Concat(iterables)))
        /\ mpc = "done" => output = SortAsc(Concat(iterables)) /\ heap = <<>>
        /\ (mpc = "loop" /\ heap = <<>>) => output = SortAsc(Concat(iterables))
        /\ mpc = "yielded" => heap # <<>> /\ PyGet(heap, 0)[1] = output[Len(output)]

\* Three lists, one of them empty, with values that tie across lists, have
\* been merged to the end.
C8_Witness ==
    /\ mpc = "done"
    /\ Len(iterables) = 3
    /\ Len(output) = 4
    /\ \E i, j \in 1..3 : iterables[i] = <<>> /\ Len(iterables[j]) = 2
    /\ \E i, j \in 1..3 : \E a \in DOMAIN iterables[i], b \in DOMAIN iterables[j] :
          i # j /\ iterables[i][a] = iterables[j][b]

----------------------------------------------------------------------------
(* Vocabulary of the tree claims *)

Children(ns, S) == {ns[n].left : n \in S} \cup {ns[n].right : n \in S}

RECURSIVE ReachFrom(_, _)
ReachFrom(ns, S) ==
    LET T == (S \cup Children(ns, S)) \ {NULL}
    IN  IF T = S THEN S ELSE ReachFrom(ns, T)

\* The objects of the tree under r, r included.
Reach(ns, r) == ReachFrom(ns, {r} \ {NULL})
Keys(ns, r) == {ns[n].value : n \in Reach(ns, r)}

\* Every key under a node's left link is smaller and every key under its
\* right link greater than the node's own.
IsBST(ns, r) ==
    \A n \in Reach(ns, r) :
        /\ \A m \in Reach(ns, ns[n].left) : ns[m].value < ns[n].value
        /\ \A m \in Reach(ns, ns[n].right) : ns[m].value > ns[n].value

ParentsConsistent(ns, r) ==
    /\ r # NULL => ns[r].parent = NULL
    /\ \A n \in Reach(ns, r) :
          /\ ns[n].left # NULL => ns[ns[n].left].parent = n
          /\ ns[n].right # NULL => ns[ns[n].right].parent = n

PreTarget == bst_search_recursive(last.pre_nodes, last.pre_root, last.target)

\* C9: bst_delete on a binary search tree with consistent parent links that
\* holds target returns the root of a binary search tree holding the former
\* keys without target.
C9_DeleteKeepsBST ==
    ( /\ last.op = "bst_delete"
      /\ IsBST(last.pre_nodes, last.pre_root)
      /\ ParentsConsistent(last.pre_nodes, last.pre_root)
      /\ last.target \in Keys(last.pre_nodes, last.pre_root) )
    => /\ last.outcome = "returned"
       /\ IsBST(nodes, last.ret)
       /\ Keys(nodes, last.ret) = Keys(last.pre_nodes, last.pre_root) \ {last.target}
       /\ Cardinality(Reach(nodes, last.ret))
            = Cardinality(Reach(last.pre_nodes, last.pre_root)) - 1

\* The deleted key sat in the root with two children, its successor deeper
\* in the right subtree (case 3b) and with a right child of its own.
C9_Witness ==
    /\ last.op = "bst_delete"
    /\ last.outcome = "returned"
    /\ last.pre_root # NULL
    /\ PreTarget = last.pre_root
    /\ last.pre_nodes[PreTarget].left # NULL
    /\ last.pre_nodes[PreTarget].right # NULL
    /\ last.pre_nodes[bst_successor(last.pre_nodes, PreTarget)].parent # PreTarget
    /\ last.pre_nodes[bst_successor(last.pre_nodes, PreTarget)].right # NULL

\* The objects whose links differ between two heaps.
Changed(pre, post) == {n \in DOMAIN pre : post[n] # pre[n]}

\* C10: on a non-empty binary search tree both insertions return a node
\* holding target; an absent target is attached as a new leaf, the tree stays
\* a binary search tree with one more key and no other link changes; a
\* present target leaves everything as it was.
C10_InsertKeepsBST ==
    ( /\ last.op \in {"bst_insert_recursive", "bst_insert_iterative"}
      /\ last.pre_root # NULL
      /\ IsBST(last.pre_nodes, last.pre_root) )
    => /\ last.outcome = "returned"
       /\ root = last.pre_root
       /\ nodes[last.ret].value = last.target
       /\ last.target \in Keys(last.pre_nodes, last.pre_root) =>
             /\ nodes = last.pre_nodes
             /\ last.ret \in Reach(nodes, root)
       /\ last.target \notin Keys(last.pre_nodes, last.pre_root) =>
             /\ last.ret \notin DOMAIN last.pre_nodes
             /\ DOMAIN nodes = DOMAIN last.pre_nodes \cup {last.ret}
             /\ nodes[last.ret].left = NULL /\ nodes[last.ret].right = NULL
             /\ IsBST(nodes, root)
             /\ Keys(nodes, root) = Keys(last.pre_nodes, last.pre_root) \cup {last.target}
             /\ Reach(nodes, root) = Reach(last.pre_nodes, last.pre_root) \cup {last.ret}
             /\ \E p \in Reach(last.pre_nodes, last.pre_root) :
                   /\ Changed(last.pre_nodes, nodes) = {p}
                   /\ \/ /\ last.pre_nodes[p].left = NULL
                         /\ nodes[p] = [last.pre_nodes[p] EXCEPT !.left = last.ret]
                      \/ /\ last.pre_nodes[p].right = NULL
                         /\ nodes[p] = [last.pre_nodes[p] EXCEPT !.right = last.ret]

\* The recursive insertion hung a new key two levels down, under a node
\* that already had its other child.
C10_Witness ==
    /\ last.op = "bst_insert_recursive"
    /\ last.outcome = "returned"
    /\ last.ret \notin DOMAIN last.pre_nodes
    /\ \E p \in Reach(nodes, root) :
          /\ p # root
          /\ nodes[p].left # NULL /\ nodes[p].right # NULL
          /\ last.ret \in {nodes[p].left, nodes[p].right}

\* The iterative insertion was handed a key the tree already held below the
\* root.
C10_WitnessPresent ==
    /\ last.op = "bst_insert_iterative"
    /\ last.outcome = "returned"
    /\ last.ret \in DOMAIN last.pre_nodes
    /\ last.ret # root

----------------------------------------------------------------------------
(* The linear pass of manachers_algorithm: what its radii mean. *)

\* The r symbols on each side of position c lie inside t and mirror each
\* other.
Symmetric(t, c, r) ==
    /\ c - r >= 0
    /\ c + r <= Len(t) - 1
    /\ \A k \in 1..r : t[(c - k) + 1] = t[(c + k) + 1]

\* The largest such r: the radius of the longest palindrome centred on c.
TrueRadius(t, c) ==
    CHOOSE r \in 0..Len(t) :
        /\ Symmetric(t, c, r)
        /\ \A q \in 0..Len(t) : Symmetric(t, c, q) => q <= r

\* The positions of the augmented string of a call.
Positions(f) == 0..(Len(f.s_prime) - 1)

\* The pass of invocation p is over: the outer while has ended.
PassOver(p) == frame[p].pc \in {"extract", "done"}

\* C11: when the linear pass has ended, palindrome_radii has one entry per
\* position of the augmented string and the entry at every position c is the
\* largest r with c - r >= 0, c + r <= len - 1 and s_prime[c - k] =
\* s_prime[c + k] for all 1 <= k <= r.
C11_RadiiExact ==
    \A p \in Proc :
        PassOver(p) =>
            /\ Len(frame[p].palindrome_radii) = Len(frame[p].s_prime)
            /\ \A c \in Positions(frame[p]) :
                  frame[p].palindrome_radii[c + 1] = TrueRadius(frame[p].s_prime, c)

\* A pass has ended on an input of full length in which a palindrome of
\* radius 3 or more covers a later centre whose own radius is not 0.
C11_Witness ==
    /\ PassOver(1)
    /\ Len(frame[1].s) = MaxLen
    /\ \E c, d \in Positions(frame[1]) :
          /\ frame[1].palindrome_radii[c + 1] >= 3
          /\ c < d /\ d <= c + frame[1].palindrome_radii[c + 1]
          /\ frame[1].palindrome_radii[d + 1] >= 1

\* t has one separator before, between and after the symbols of s and
\* nothing else as far as its length tells: 2n + 1 symbols, a single
\* separator when s is empty.
OddAugmented(s, t) ==
    /\ Len(t) = 2 * Len(s) + 1
    /\ s = <<>> => t = <<"|">>

\* C12: for every input of length n >= 0 the augmented sequence built by
\* augmentation_with_separator, palindromic_radii_array and
\* manachers_algorithm has length 2n + 1, so it is always odd; for the empty
\* input it is a single separator.  (augmentation_with_separator returns
\* before line 180 on the empty input and builds none.)
C12_AugmentedLength ==
    /\ \A p \in Proc :
          frame[p].pc # "idle" => OddAugmented(frame[p].s, frame[p].s_prime)
    /\ ret.pra # NotCalled => OddAugmented(input, SPrime(input))
    /\ (ret.aws # NotCalled /\ input # <<>>) => OddAugmented(input, SPrime(input))

\* The fast-forward while of invocation frame f evaluates a mirror case: its
\* condition (line 293) holds.
Turn(f) == f.pc = "mirror" /\ f.center <= f.original_center + f.original_radius

\* The case the turn takes (lines 302, 307, 312).
Case1(f) == Turn(f) /\ PyGet(f.palindrome_radii, MirroredCenter(f)) < MaxRadius(f)
Case2(f) == Turn(f) /\ PyGet(f.palindrome_radii, MirroredCenter(f)) > MaxRadius(f)
Case3(f) == Turn(f) /\ PyGet(f.palindrome_radii, MirroredCenter(f)) = MaxRadius(f)

\* C13: whenever the fast-forward takes case 2 (radii[mirror] >
\* maxPossibleRadius) the turn writes radii[newCenter] = maxPossibleRadius,
\* changes no other entry, makes no symbol comparison, and the value written
\* is exactly the true maximal radius at newCenter.
C13_Case2Exact ==
    [][\A p \in Proc :
          (Case2(frame[p]) /\ frame'[p] # frame[p]) =>
              /\ frame'[p].palindrome_radii =
                    [frame[p].palindrome_radii EXCEPT
                        ![frame[p].center + 1] = MaxRadius(frame[p])]
              /\ frame'[p].compared = frame[p].compared
              /\ frame'[p].center = frame[p].center + 1
              /\ TrueRadius(frame[p].s_prime, frame[p].center) = MaxRadius(frame[p])
      ]_vars

\* The position last written, when the fast-forward wrote it: the turn before
\* this one handled position center - 1, which is not the original center.
FastForwarded(f) ==
    /\ f.pc = "mirror"
    /\ f.writes # <<>>
    /\ f.writes[Len(f.writes)] = f.center - 1
    /\ f.center - 1 > f.original_center

\* Case 2 has just clamped position center - 1 to a radius that is not 0: its
\* mirrored radius is larger than the distance to the boundary.
C13_Witness ==
    /\ FastForwarded(frame[1])
    /\ LET w == frame[1].center - 1
           m == frame[1].original_center - (w - frame[1].original_center)
           d == frame[1].original_center + frame[1].original_radius - w
       IN  /\ frame[1].palindrome_radii[m + 1] > d
           /\ frame[1].palindrome_radii[w + 1] = d
           /\ d >= 1

\* C14: whenever the fast-forward takes case 1 (radii[mirror] <
\* maxPossibleRadius) the turn writes radii[newCenter] = radii[mirror],
\* changes no other entry, makes no symbol comparison, and the value written
\* is exactly the true maximal radius at newCenter.
C14_Case1Exact ==
    [][\A p \in Proc :
          (Case1(frame[p]) /\ frame'[p] # frame[p]) =>
              /\ frame'[p].palindrome_radii =
                    [frame[p].palindrome_radii EXCEPT
                        ![frame[p].center + 1] =
                            PyGet(frame[p].palindrome_radii, MirroredCenter(frame[p]))]
              /\ frame'[p].compared = frame[p].compared
              /\ frame'[p].center = frame[p].center + 1
              /\ TrueRadius(frame[p].s_prime, frame[p].center)
                    = PyGet(frame[p].palindrome_radii, MirroredCenter(frame[p]))
      ]_vars

\* Case 1 has just copied a radius that is not 0 to position center - 1: the
\* mirrored palindrome ends before the boundary of the original one.
C14_Witness ==
    /\ FastForwarded(frame[1])
    /\ LET w == frame[1].center - 1
           m == frame[1].original_center - (w - frame[1].original_center)
           d == frame[1].original_center + frame[1].original_radius - w
       IN  /\ frame[1].palindrome_radii[m + 1] < d
           /\ frame[1].palindrome_radii[w + 1] = frame[1].palindrome_radii[m + 1]
           /\ frame[1].palindrome_radii[m + 1] >= 1

\* C15: whenever the fast-forward takes case 3 (radii[mirror] =
\* maxPossibleRadius) the turn writes no radii entry and leaves the loop with
\* center = newCenter and radius = maxPossibleRadius, and that radius is a
\* valid lower bound for the Expand step that follows: center - radius >= 0,
\* center + radius <= len - 1 and s_prime[center - k] = s_prime[center + k]
\* for all 1 <= k <= radius.
C15_Case3LowerBound ==
    [][\A p \in Proc :
          (Case3(frame[p]) /\ frame'[p] # frame[p]) =>
              /\ frame'[p].palindrome_radii = frame[p].palindrome_radii
              /\ frame'[p].writes = frame[p].writes
              /\ frame'[p].pc = "outer"
              /\ frame'[p].center = frame[p].center
              /\ frame'[p].radius = MaxRadius(frame[p])
              /\ Symmetric(frame'[p].s_prime, frame'[p].center, frame'[p].radius)
      ]_vars

\* Case 3 has just left the fast-forward while on a position inside the
\* original palindrome with a radius that is not 0, and the expansion that
\* follows has room to compare.
C15_Witness ==
    /\ frame[1].pc = "outer"
    /\ frame[1].writes # <<>>
    /\ frame[1].center <= frame[1].original_center + frame[1].original_radius
    /\ frame[1].radius >= 1
    /\ ExpandInBounds(frame[1].s_prime, frame[1].center, frame[1].radius)

\* The positions of invocation frame f written so far.
Written(f) == {f.writes[i] : i \in 1..Len(f.writes)}

\* C16: during the pass every position of the augmented string is written
\* into palindrome_radii exactly once (by the store after an expansion or by
\* case 1 or case 2 of the fast-forward), the writes happen in strictly
\* increasing position order, and an entry once written is never changed
\* afterwards.
C16_WrittenOnce ==
    /\ [](\A p \in Proc :
            /\ \A i \in 1..(Len(frame[p].writes) - 1) :
                  frame[p].writes[i] < frame[p].writes[i + 1]
            /\ Written(frame[p]) \subseteq Positions(frame[p])
            /\ PassOver(p) => Written(frame[p]) = Positions(frame[p]))
    /\ [][\A p \in Proc :
            (frame[p].pc \notin {"idle", "done"}) =>
                \A c \in Positions(frame[p]) :
                    /\ c \in Written(frame[p]) =>
                          /\ frame'[p].palindrome_radii[c + 1] = frame[p].palindrome_radii[c + 1]
                          /\ c \in Written(frame'[p])
                    /\ frame'[p].palindrome_radii[c + 1] # frame[p].palindrome_radii[c + 1] =>
                          frame'[p].writes = Append(frame[p].writes, c)
      ]_vars

\* A pass over an input of full length has ended: the positions were written
\* in the order 0, 1, ..., 2 * MaxLen, some of them inside a palindrome of
\* radius 3 or more.
C16_Witness ==
    /\ PassOver(1)
    /\ frame[1].writes = [i \in 1..(2 * MaxLen + 1) |-> i - 1]
    /\ \E c \in Positions(frame[1]) : frame[1].palindrome_radii[c + 1] >= 3

----------------------------------------------------------------------------
(* The indices the expansions and the fast-forward use. *)

\* The indices read by one expansion of expansion_around_centers and
\* augmentation_with_separator from the window (left, right):
\* while left >= 0 and right < len(s) and s[left] == s[right].
RECURSIVE WindowReads(_, _, _)
WindowReads(seq, left, right) ==
    IF ~(left >= 0 /\ right < Len(seq)) THEN {}
    ELSE {left, right}
         \cup (IF PyGet(seq, left) # PyGet(seq, right) THEN {}
               ELSE WindowReads(seq, left - 1, right + 1))

\* The indices expansion_around_centers reads in s: both for loops.
EacReads(s) ==
    IF s = <<>> THEN {}
    ELSE UNION ({WindowReads(s, i, i) : i \in 0..(Len(s) - 1)}
                \cup {WindowReads(s, i, i + 1) : i \in 0..(Len(s) - 2)})

\* The indices augmentation_with_separator reads in s_prime.
AwsReads(s) ==
    IF s = <<>> THEN {}
    ELSE UNION {WindowReads(SPrime(s), i, i) : i \in 0..(Len(SPrime(s)) - 1)}

\* The indices the inner while of palindromic_radii_array reads in s_prime
\* around `center`, from `radius` on.
RECURSIVE RadiusReads(_, _, _)
RadiusReads(s_prime, center, radius) ==
    IF ~ExpandInBounds(s_prime, center, radius) THEN {}
    ELSE {center - (radius + 1), center + (radius + 1)}
         \cup (IF PyGet(s_prime, center - (radius + 1))
                  # PyGet(s_prime, center + (radius + 1)) THEN {}
               ELSE RadiusReads(s_prime, center, radius + 1))

\* The indices palindromic_radii_array uses: its reads of s_prime and its
\* writes to palindrome_radii, one per turn of the outer while.
PraIndices(s) ==
    UNION {RadiusReads(SPrime(s), c, 0) \cup {c} : c \in 0..(Len(SPrime(s)) - 1)}

\* The indices the step invocation frame f takes next uses in s_prime and in
\* palindrome_radii (both have the same length): the two symbols line 281
\* compares, the entry line 285 writes, the entries lines 302-308 read and
\* write.
StepIndices(f) ==
    IF f.pc = "expand" /\ ExpandInBounds(f.s_prime, f.center, f.radius)
    THEN {f.center - (f.radius + 1), f.center + (f.radius + 1)}
    ELSE IF f.pc = "store" THEN {f.center}
    ELSE IF Case3(f) THEN {MirroredCenter(f)}
    ELSE IF Turn(f) THEN {MirroredCenter(f), f.center}
    ELSE {}

\* C17: no index used during an Expand step or the fast-forward of
\* manachers_algorithm, or during the expansions of the three quadratic
\* variants, lies outside [0, len - 1]; and whenever mirrored_center and
\* max_radius are computed, 0 <= mirrored_center < original_center, center
\* <= len(s_prime) - 1 and max_radius >= 0.
C17_IndicesInBounds ==
    /\ \A p \in Proc :
          /\ frame[p].pc # "error"
          /\ Len(frame[p].palindrome_radii) = Len(frame[p].s_prime)
          /\ StepIndices(frame[p]) \subseteq Positions(frame[p])
          /\ Turn(frame[p]) =>
                /\ 0 <= MirroredCenter(frame[p])
                /\ MirroredCenter(frame[p]) < frame[p].original_center
                /\ frame[p].center <= Len(frame[p].s_prime) - 1
                /\ MaxRadius(frame[p]) >= 0
    /\ ret.eac # NotCalled =>
          ret.eac.status = "returned" /\ EacReads(input) \subseteq 0..(Len(input) - 1)
    /\ ret.aws # NotCalled =>
          ret.aws.status = "returned"
          /\ AwsReads(input) \subseteq 0..(Len(SPrime(input)) - 1)
    /\ ret.pra # NotCalled =>
          ret.pra.status = "returned"
          /\ PraIndices(input) \subseteq 0..(Len(SPrime(input)) - 1)

\* The three quadratic variants have run on an input of full length and the
\* fast-forward computes mirrored_center and max_radius on the last position
\* of s_prime, where max_radius is 0.
C17_Witness ==
    /\ NotCalled \notin {ret.eac, ret.aws, ret.pra}
    /\ Len(input) = MaxLen
    /\ Turn(frame[1])
    /\ frame[1].center = Len(frame[1].s_prime) - 1
    /\ MaxRadius(frame[1]) = 0

----------------------------------------------------------------------------
(* The span of the fast-forward. *)

\* The right boundary of the palindrome the last store saved.
RightBoundary(f) == f.original_center + f.original_radius

\* C18 as stated: every newCenter for which a mirror case is evaluated
\* satisfies originalCenter < newCenter < originalCenter + originalRadius, so
\* the right boundary position itself is never handled by the fast-forward.
C18_StrictlyInside ==
    \A p \in Proc :
        Turn(frame[p]) =>
            /\ frame[p].original_center < frame[p].center
            /\ frame[p].center < RightBoundary(frame[p])

\* C18, amended: every newCenter for which a mirror case is evaluated
\* satisfies originalCenter < newCenter <= originalCenter + originalRadius.
\* The right boundary position itself is handled by the fast-forward, with
\* maxPossibleRadius = 0, so that case 1 cannot apply there; every turn on a
\* position up to the boundary takes one of the three cases, and the loop is
\* left by its condition only at originalCenter + originalRadius + 1.
C18_UpToBoundary ==
    /\ [](\A p \in Proc :
            Turn(frame[p]) =>
                /\ frame[p].original_center < frame[p].center
                /\ frame[p].center <= RightBoundary(frame[p])
                /\ frame[p].center = RightBoundary(frame[p]) =>
                      MaxRadius(frame[p]) = 0 /\ ~Case1(frame[p]))
    /\ [][\A p \in Proc :
            (frame[p].pc = "mirror" /\ frame'[p] # frame[p]) =>
                IF frame[p].center <= RightBoundary(frame[p])
                THEN \/ /\ Case3(frame[p])
                        /\ frame'[p].pc = "outer"
                        /\ frame'[p].center = frame[p].center
                        /\ frame'[p].radius = MaxRadius(frame[p])
                     \/ /\ ~Case3(frame[p])
                        /\ frame'[p].pc = "mirror"
                        /\ frame'[p].writes = Append(frame[p].writes, frame[p].center)
                        /\ frame'[p].center = frame[p].center + 1
                ELSE /\ frame[p].center = RightBoundary(frame[p]) + 1
                     /\ frame'[p] = [frame[p] EXCEPT !.pc = "outer"]
      ]_vars

\* The fast-forward has just handled the right boundary of a palindrome of
\* radius 1 or more: case 2 wrote 0 there, and the loop condition now fails.
C18_Witness ==
    /\ FastForwarded(frame[1])
    /\ frame[1].original_radius >= 1
    /\ frame[1].center - 1 = RightBoundary(frame[1])
    /\ frame[1].palindrome_radii[frame[1].center] = 0

----------------------------------------------------------------------------
(* Termination of the linear pass. *)

\* A step of the one call of manachers_algorithm.
StepRun ==
    \/ Outer(1)
    \/ Expand(1)
    \/ Store(1)
    \/ Mirror(1)
    \/ ExtractResult(1)

NextRun == CallManacher \/ StepRun

\* The call, once made, is not abandoned half-way: the interpreter runs the
\* statements of the function one after the other for as long as there is a
\* next one.
SpecRun == InitPal /\ [][NextRun]_vars /\ WF_vars(StepRun)

\* C19: for every finite input the linear pass terminates: it starts at
\* center = 0, radius = 0, center strictly increases from each Expand step to
\* the next, and the loop stops in a state with center >= len(s_prime).
C19_Terminates ==
    /\ [](\A p \in Proc :
            /\ (frame[p].pc = "outer" /\ frame[p].writes = <<>>) =>
                  frame[p].center = 0 /\ frame[p].radius = 0
            /\ (frame[p].pc \in {"expand", "store"} /\ frame[p].writes # <<>>) =>
                  frame[p].center > frame[p].original_center
            /\ PassOver(p) => frame[p].center >= Len(frame[p].s_prime))
    /\ (frame[1].pc # "idle") ~> PassOver(1)

\* The pass over an input of full length has stopped, after more than one
\* Expand step, with center = len(s_prime).
C19_Witness ==
    /\ PassOver(1)
    /\ Len(frame[1].s) = MaxLen
    /\ frame[1].center = Len(frame[1].s_prime)
    /\ frame[1].original_center > 0
    /\ frame[1].compared # <<>>

----------------------------------------------------------------------------
(* The comparisons of the linear pass. *)

\* C20: no symbol pair already certified equal is compared again: every
\* comparison made by an Expand step has its right-hand position, center +
\* radius + 1, strictly beyond the furthest right boundary (center + radius)
\* reached at the end of any earlier Expand step.  The furthest boundary is
\* the one the latest store saved.
C20_NoRecomparison ==
    /\ [](\A p \in Proc :
            /\ frame[p].writes # <<>> => frame[p].boundary = RightBoundary(frame[p])
            /\ (frame[p].pc = "expand"
                /\ ExpandInBounds(frame[p].s_prime, frame[p].center, frame[p].radius)) =>
                  frame[p].center + frame[p].radius + 1 > frame[p].boundary)
    /\ [][\A p \in Proc :
            frame'[p].compared # frame[p].compared =>
                \/ frame'[p].compared = <<>>
                \/ /\ frame'[p].compared =
                         Append(frame[p].compared, frame[p].center + frame[p].radius + 1)
                   /\ frame[p].center + frame[p].radius + 1 > frame[p].boundary
                   /\ frame'[p].boundary = frame[p].boundary
      ]_vars

\* An expansion that started from the lower bound of a tie has compared the
\* pair just outside the earlier boundary, found it equal and goes on: its
\* center lies inside the earlier palindrome and nothing inside was compared.
C20_Witness ==
    /\ frame[1].pc = "expand"
    /\ frame[1].center < frame[1].boundary
    /\ frame[1].radius >= 2
    /\ frame[1].compared # <<>>
    /\ frame[1].compared[Len(frame[1].compared)] = frame[1].boundary + 1
    /\ frame[1].center + frame[1].radius = frame[1].boundary + 1

\* C21: over one whole pass of manachers_algorithm the number of successful
\* symbol comparisons is at most len(s_prime) - 1: each one moves the right
\* boundary center + radius one step to the right, beyond every boundary
\* reached before, and the furthest boundary never moves left.  Each Expand
\* step performs at most one failing comparison (the step ends with it), so
\* the total is at most 2 * len(s_prime).
C21_LinearComparisons ==
    /\ [](\A p \in Proc :
            /\ frame[p].equal <= Max2(Len(frame[p].s_prime) - 1, 0)
            /\ frame[p].equal <= Len(frame[p].compared)
            /\ Len(frame[p].compared) - frame[p].equal <= Len(frame[p].s_prime)
            /\ Len(frame[p].compared) <= 2 * Len(frame[p].s_prime))
    /\ [][\A p \in Proc :
            /\ frame[p].pc \notin {"idle", "done"} =>
                  frame'[p].boundary >= frame[p].boundary
            /\ frame'[p].equal # frame[p].equal =>
                  \/ frame'[p].equal = 0
                  \/ /\ frame'[p].equal = frame[p].equal + 1
                     /\ Len(frame'[p].compared) = Len(frame[p].compared) + 1
                     /\ frame'[p].center = frame[p].center
                     /\ frame'[p].radius = frame[p].radius + 1
                     /\ frame'[p].center + frame'[p].radius > frame[p].boundary
            /\ (Len(frame'[p].compared) = Len(frame[p].compared) + 1
                /\ frame'[p].equal = frame[p].equal) =>
                  frame'[p].pc = "store"
      ]_vars

\* A pass over an input of full length has ended after more successful
\* comparisons than the input has symbols and at least two failing ones.
C21_Witness ==
    /\ PassOver(1)
    /\ Len(frame[1].s) = MaxLen
    /\ frame[1].equal >= MaxLen + 1
    /\ Len(frame[1].compared) >= frame[1].equal + 2

----------------------------------------------------------------------------
(* The radii arrays while they are filled. *)

\* palindrome_radii of palindromic_radii_array after k turns of its outer
\* while: the first k entries hold the radius found by the inner while.
PraTurns(s_prime, k) ==
    [i \in 1..Len(s_prime) |-> IF i <= k THEN PraRadius(s_prime, i - 1, 0) ELSE 0]

\* r is a radius that fits around position c of a string of length n.
Fits(r, c, n) == 0 <= r /\ r <= Min2(c, n - 1 - c)

\* C22: in every reachable state of the passes of palindromic_radii_array
\* and manachers_algorithm each entry of the radii array satisfies
\* 0 <= radii[c] <= min(c, len(s_prime) - 1 - c), including the values written
\* by case-1 copies and case-2 clamps; so does the radius an expansion starts
\* from or has reached, the starting radius set by case 3 included.
C22_RadiiFit ==
    /\ \A p \in Proc :
          /\ \A c \in Positions(frame[p]) :
                Fits(frame[p].palindrome_radii[c + 1], c, Len(frame[p].s_prime))
          /\ (frame[p].pc \in {"outer", "expand", "store"}
              /\ frame[p].center < Len(frame[p].s_prime)) =>
                Fits(frame[p].radius, frame[p].center, Len(frame[p].s_prime))
    /\ ret.pra # NotCalled =>
          /\ PraTurns(SPrime(input), Len(SPrime(input))) = PraRadii(input)
          /\ \A k \in 0..Len(SPrime(input)) :
                LET radii == PraTurns(SPrime(input), k)
                IN  \A c \in 0..(Len(SPrime(input)) - 1) :
                        Fits(radii[c + 1], c, Len(SPrime(input)))

\* palindromic_radii_array has run, and in manachers_algorithm case 3 has
\* just set a starting radius that is not 0 and is the largest that fits at
\* its center, next to entries that case 1 or case 2 wrote.
C22_Witness ==
    /\ ret.pra # NotCalled
    /\ frame[1].pc = "outer"
    /\ frame[1].writes # <<>>
    /\ frame[1].center <= RightBoundary(frame[1])
    /\ frame[1].center > frame[1].original_center + 1
    /\ frame[1].radius >= 1
    /\ frame[1].radius = Len(frame[1].s_prime) - 1 - frame[1].center

\* The smallest position of invocation frame f not yet assigned, or
\* len(s_prime) when all are.
NextUnassigned(f) ==
    IF Positions(f) \subseteq Written(f) THEN Len(f.s_prime)
    ELSE CHOOSE c \in Positions(f) \ Written(f) :
             \A d \in Positions(f) \ Written(f) : c <= d

\* C23: each time the fast-forward loop of manachers_algorithm exits, by
\* exhausting the positions inside the boundary or by case 3, center is the
\* smallest position of s_prime whose radii entry has not yet been assigned
\* (len(s_prime) when all are assigned); so the Expand step that follows
\* skips no position and revisits no assigned one: every position before
\* center is assigned and center itself is not.
C23_NextUnassigned ==
    /\ [](\A p \in Proc :
            frame[p].pc \in {"outer", "expand", "store"} =>
                /\ frame[p].center = NextUnassigned(frame[p])
                /\ Written(frame[p]) = 0..(frame[p].center - 1))
    /\ [][\A p \in Proc :
            (frame[p].pc = "mirror" /\ frame'[p].pc # "mirror") =>
                /\ frame'[p].pc = "outer"
                /\ frame'[p].center = NextUnassigned(frame'[p])
      ]_vars

\* The fast-forward loop has exhausted the positions up to the boundary of a
\* palindrome of radius 2 or more, and positions are left to expand.
C23_Witness ==
    /\ frame[1].pc = "outer"
    /\ frame[1].writes # <<>>
    /\ frame[1].original_radius >= 2
    /\ frame[1].center = RightBoundary(frame[1]) + 1
    /\ frame[1].center < Len(frame[1].s_prime)

----------------------------------------------------------------------------
(* From positions of the augmented string back to the original string. *)

\* The augmentation of t as the specification defines it: a separator
\* before, between and after the symbols of t, 2 * Len(t) + 1 symbols.
Augmentation(t) ==
    [i \in 1..(2 * Len(t) + 1) |-> IF i % 2 = 1 THEN "|" ELSE t[i \div 2]]

\* seq[lo..hi], both ends included, 0-based.
Window(seq, lo, hi) == [i \in 1..(hi - lo + 1) |-> seq[lo + i]]

\* The conversion of the selected position of radii: with c = max_center and
\* r = max_radius, start = (c - r) // 2 and end = (c + r - 1) // 2 delimit r
\* symbols of s, the slice s[start : end + 1] is exactly s[start..end], and
\* its augmentation is s_prime[c - r .. c + r]; value is that slice.
ConvertsBack(s, s_prime, radii, value) ==
    LET m == MaxOf(radii)
        c == m.max_center
        r == m.max_radius
        start == StartOf(m)
        end == EndOf(m)
    IN  /\ 0 <= c - r /\ c + r <= Len(s_prime) - 1
        /\ 0 <= start /\ end <= Len(s) - 1
        /\ end - start + 1 = r
        /\ value = PySlice(s, start, end + 1)
        /\ value = [i \in 1..r |-> s[start + i]]
        /\ Augmentation(value) = Window(s_prime, c - r, c + r)

\* C24: in palindromic_radii_array and manachers_algorithm, for the selected
\* position c = max_center with r = max_radius, the slice s[start..end] with
\* start = floor((c - r) / 2) and end = floor((c + r - 1) / 2) is exactly the
\* substring of the original string whose augmentation is
\* s_prime[c - r .. c + r]; the division is the floor also when c + r - 1 is
\* negative (c = r = 0: end = -1 and the slice is empty).
C24_ConvertsBack ==
    /\ \A p \in Proc :
          frame[p].pc = "done" =>
              ConvertsBack(frame[p].s, frame[p].s_prime,
                           frame[p].palindrome_radii, frame[p].result)
    /\ ret.pra # NotCalled =>
          /\ ret.pra.status = "returned"
          /\ ConvertsBack(input, SPrime(input), PraRadii(input), ret.pra.value)

\* Both functions have returned a palindrome of two or more symbols that
\* does not start at the beginning of an input of full length.
C24_Witness ==
    /\ ret.pra # NotCalled
    /\ frame[1].pc = "done"
    /\ Len(input) = MaxLen
    /\ MaxOf(frame[1].palindrome_radii).max_radius >= 2
    /\ StartOf(MaxOf(frame[1].palindrome_radii)) >= 1

\* Both functions have returned on the empty input: c + r - 1 is -1.
C24_WitnessNegative ==
    /\ ret.pra # NotCalled
    /\ frame[1].pc = "done"
    /\ MaxOf(frame[1].palindrome_radii).max_center
          + MaxOf(frame[1].palindrome_radii).max_radius - 1 < 0

\* C25: in augmentation_with_separator, for every non-empty input the final
\* best window [left, right] over s_prime begins and ends on a separator
\* position, and the slice s[left div 2 .. (right - 1) div 2] that is
\* returned is the palindrome of the original string whose augmentation is
\* that window, of length (right - left) / 2.
C25_WindowConvertsBack ==
    (ret.aws # NotCalled /\ input # <<>>) =>
        LET b == AwsBest(input)
            left == b.start
            right == b.end
            start == left \div 2
            end == (right - 1) \div 2
        IN  /\ ret.aws.status = "returned"
            /\ 0 <= left /\ left <= right /\ right <= Len(SPrime(input)) - 1
            /\ left % 2 = 0 /\ right % 2 = 0
            /\ SPrime(input)[left + 1] = "|" /\ SPrime(input)[right + 1] = "|"
            /\ b.maximum_length = right - left + 1
            /\ 0 <= start /\ end <= Len(input) - 1
            /\ ret.aws.value = [i \in 1..(end - start + 1) |-> input[start + i]]
            /\ Len(ret.aws.value) * 2 = right - left
            /\ IsPalindrome(ret.aws.value)
            /\ Augmentation(ret.aws.value) = Window(SPrime(input), left, right)

\* augmentation_with_separator has returned a palindrome of two or more
\* symbols whose window does not start at the first separator.
C25_Witness ==
    /\ ret.aws # NotCalled
    /\ Len(input) = MaxLen
    /\ AwsBest(input).start >= 2
    /\ AwsBest(input).end - AwsBest(input).start >= 4

----------------------------------------------------------------------------
(* three_way_partition: the three blocks. *)

\* How often v occurs in seq.
Occurrences(seq, v) == Cardinality({x \in 1..Len(seq) : seq[x] = v})

\* The invariant of the module docstring for list arr, key and the three
\* indices: arr[0..i) < key, arr[i..j) = key, arr(k..n-1] > key.
ThreeBlocks(t) ==
    /\ 0 <= t.i /\ t.i <= t.j /\ t.j <= t.k + 1 /\ t.k + 1 <= Len(t.arr)
    /\ \A x \in 0..(t.i - 1) : t.arr[x + 1] < t.key
    /\ \A x \in t.i..(t.j - 1) : t.arr[x + 1] = t.key
    /\ \A x \in (t.k + 1)..(Len(t.arr) - 1) : t.arr[x + 1] > t.key

\* C26: in three_way_partition(arr, key), at the end of every loop iteration
\* all elements of arr[0..i) are less than key, all elements of arr[i..j) are
\* equal to key and all elements of arr(k..n-1] are greater than key; the
\* loop ends with j = k + 1, so on return the array consists of a block of
\* elements < key, then a block = key, then a block > key.  The array holds
\* the elements it was handed, and no turn raises IndexError.
C26_ThreeBlocks ==
    /\ partition.pc # "error"
    /\ partition.pc \in {"loop", "done"} =>
          /\ ThreeBlocks(partition)
          /\ \A v \in Values :
                Occurrences(partition.arr, v) = Occurrences(partition.given, v)
    /\ partition.pc = "done" =>
          /\ partition.j = partition.k + 1
          /\ \A x \in 0..(Len(partition.arr) - 1) :
                /\ x < partition.i => partition.arr[x + 1] < partition.key
                /\ (partition.i <= x /\ x < partition.j) =>
                      partition.arr[x + 1] = partition.key
                /\ partition.j <= x => partition.arr[x + 1] > partition.key

\* The call has returned on a list of full length that was not partitioned
\* when handed in and has all three blocks.
C26_Witness ==
    /\ partition.pc = "done"
    /\ Len(partition.arr) = ArrLen
    /\ partition.arr # partition.given
    /\ 0 < partition.i
    /\ partition.i < partition.j
    /\ partition.j < Len(partition.arr)
    /\ partition.given[1] > partition.key

\* C27: for every input string the complete radii array produced by the
\* linear pass of manachers_algorithm is element for element the radii array
\* produced by the per-center expansion of palindromic_radii_array.
C27_SameRadii ==
    \A p \in Proc :
        PassOver(p) =>
            /\ PraRadii(frame[p].s) # <<-1>>
            /\ Len(frame[p].palindrome_radii) = Len(PraRadii(frame[p].s))
            /\ \A c \in Positions(frame[p]) :
                  frame[p].palindrome_radii[c + 1] = PraRadii(frame[p].s)[c + 1]

\* The linear pass has ended on an input of full length with a palindrome
\* of radius 4 or more, having made fewer comparisons than twice the length
\* of the augmented string.
C27_Witness ==
    /\ PassOver(1)
    /\ Len(frame[1].s) = MaxLen
    /\ \E c \in Positions(frame[1]) : frame[1].palindrome_radii[c + 1] >= 4
    /\ Len(frame[1].compared) < 2 * Len(frame[1].s_prime)

----------------------------------------------------------------------------
\* C28: starting from a well-formed binary search tree with consistent parent
\* links, after any sequence of bst_insert_recursive, bst_insert_iterative
\* and bst_delete calls, each given the current root (the root the last
\* bst_delete returned), the tree under the current root is a valid binary
\* search tree and its keys are exactly the initial keys plus the inserted
\* keys minus the deleted keys; deleting a key an insert added removes it.
C28_CallsKeepTheTree ==
    /\ last.outcome \in {"none", "returned"}
    /\ IsBST(nodes, root)
    /\ Keys(nodes, root) = last.keys

\* What the code does instead: a key that an insert added is deleted, and
\* the root that bst_delete hands back no longer holds the bookkept keys.
C28_InsertedThenDeleted ==
    /\ last.op = "bst_delete"
    /\ last.outcome = "returned"
    /\ last.calls = 2
    /\ last.pre_nodes[PreTarget].parent = NULL
    /\ PreTarget # last.pre_root
    /\ Keys(nodes, root) # last.keys

----------------------------------------------------------------------------
\* Whether the input holds the separator character itself.
HoldsSeparator(s) == \E i \in 1..Len(s) : s[i] = "|"

\* C29: augmentation_with_separator, palindromic_radii_array and
\* manachers_algorithm return what expansion_around_centers returns also for
\* inputs that contain the separator character "|": each returns, and its
\* value is the one expansion_around_centers computes on the same input.
C29_SeparatorInInput ==
    HoldsSeparator(input) =>
        /\ expansion_around_centers(input).status = "returned"
        /\ \A o \in Outcomes : o = expansion_around_centers(input)

\* All four have returned for an input of full length that holds the
\* separator next to other symbols, and the palindrome returned has the
\* input's separator in its middle.
C29_Witness ==
    /\ AllCalled
    /\ Len(input) = MaxLen
    /\ HoldsSeparator(input)
    /\ \A o \in Outcomes :
          /\ Len(o.value) = 3
          /\ o.value[2] = "|"
          /\ o.value[1] # "|"

----------------------------------------------------------------------------
\* Position c of the augmented string with radius r: c - r is even and the
\* palindrome s_prime[c - r .. c + r] begins and ends on a separator.
OnSeparators(s_prime, c, r) ==
    /\ (c - r) % 2 = 0
    /\ c - r >= 0 /\ c + r <= Len(s_prime) - 1
    /\ s_prime[c - r + 1] = "|"
    /\ s_prime[c + r + 1] = "|"

\* C30: for every non-empty input, when the pass of manachers_algorithm (or
\* of palindromic_radii_array) has ended, c - radii[c] is even for every
\* augmented position c, so every maximal augmented palindrome begins and
\* ends on a separator; and the length of the returned substring equals the
\* maximum value in the radii array.
C30_RadiiParity ==
    \A p \in Proc :
        (PassOver(p) /\ frame[p].s # <<>>) =>
            LET f == frame[p]
                pra == PraRadii(f.s)
            IN  /\ \A c \in Positions(f) :
                      OnSeparators(f.s_prime, c, f.palindrome_radii[c + 1])
                /\ f.pc = "done" =>
                      Len(f.result) = MaxOf(f.palindrome_radii).max_radius
                /\ pra # <<-1>>
                /\ Len(pra) = Len(SPrime(f.s))
                /\ \A c \in 0..(Len(pra) - 1) :
                      OnSeparators(SPrime(f.s), c, pra[c + 1])
                /\ palindromic_radii_array(f.s).status = "returned"
                /\ Len(palindromic_radii_array(f.s).value) = MaxOf(pra).max_radius

\* manachers_algorithm has returned for an input of full length whose radii
\* hold an odd radius of 3 or more (around a symbol) and an even radius of 2
\* or more (around a separator), and the substring returned is as long as
\* the largest radius.
C30_Witness ==
    /\ frame[1].pc = "done"
    /\ Len(frame[1].s) = MaxLen
    /\ \E c \in Positions(frame[1]) :
          c % 2 = 1 /\ frame[1].palindrome_radii[c + 1] >= 3
    /\ \E c \in Positions(frame[1]) :
          c % 2 = 0 /\ frame[1].palindrome_radii[c + 1] >= 2
    /\ Len(frame[1].result) = MaxOf(frame[1].palindrome_radii).max_radius
    /\ Len(frame[1].result) >= 3

====
